---- MODULE Spec2Model ----
(***************************************************************************)
(* Model of the trading-bot decision engine (utils/tradingBotUtils) and of  *)
(* the bot part of the zustand store (store/stockStore.ts).                 *)
(*                                                                          *)
(* Prices are whole cents.  A value that the code computes by a division    *)
(* (the average buy price) is kept as an exact fraction <<num, den>>, and   *)
(* so is every number that is compared with it (the entries of a position's *)
(* priceHistory).  An optional field (x?: T, T | null, undefined) is the    *)
(* empty tuple when absent and the one-element tuple <<x>> when present.    *)
(* Array indices keep the source's 0-based numbering: data[i] of the source *)
(* is data[i + 1] here.  A series is the sequence of its samples' prices:   *)
(* the decision code reads no other field of a sample.                      *)
(*                                                                          *)
(* The profit-taking rule compares quantities at the edge of their          *)
(* thresholds, where the rounding of JavaScript numbers decides: it is      *)
(* computed on IEEE 754 doubles (section "JavaScript numbers").             *)
(*                                                                          *)
(* Specifications: SpecDecide (the dispatcher on bounded inputs), Spec (the *)
(* store with overlapping bot-trade checks), SpecFeed (a bot of another     *)
(* stock on successive windows of its feed), SpecAnalysis (the analyses of  *)
(* a series), SpecRealTime (the selected stock and its one-second timer)    *)
(* and SpecPortfolio (the manual portfolio under executeTrade).             *)
(***************************************************************************)
EXTENDS Integers, Sequences, FiniteSets, TLC

VARIABLES
    bot,            \* SpecDecide: the bot handed to makeTradingDecision
    data,           \* SpecDecide: the series handed to makeTradingDecision
    currentPrice,   \* SpecDecide: the current price handed to it
    lastProcessedIndex, \* SpecDecide: its 4th argument
    decision,       \* SpecDecide: the decision of the latest call, if any
    bots,           \* store: state.bots
    botTradeHistory,\* store: state.botTradeHistory (newest first)
    intradayData,   \* store: state.intradayData (the '1D' series)
    storePrice,     \* store: state.currentPrice
    invocations,    \* store: the suspended checkAndExecuteBotTrades calls
    nextId,         \* store: number of bots created so far (Date.now() ids)
    analysisData,   \* SpecAnalysis: the series the history screen analyses
    minConsecutiveIntervals, \* SpecAnalysis: the screen's minimum run length
    analysis,       \* SpecAnalysis: what the screen computed from them, if any
    feed,           \* SpecFeed: the samples of the other stock so far
    boughtValley,   \* SpecFeed: per bot, the place in feed of the valley
                    \* that its latest BUY used, if any (history variable)
    selectedStock,  \* SpecRealTime: state.selectedStock (its symbol)
    realTimeInterval, \* SpecRealTime: state.realTimeInterval, as the symbol
                    \* that the timer's callback has captured, if a timer runs
    oneSecondData,  \* SpecRealTime: state.oneSecondData, each point with the
                    \* symbol its price was fetched for
    shownPrice,     \* SpecRealTime: state.currentPrice with the symbol it was
                    \* fetched for
    pending,        \* SpecRealTime: the timer callbacks and fetchStockData
                    \* calls that wait for the market data service
    portfolio,      \* SpecPortfolio: state.portfolio
    tradeHistory,   \* SpecPortfolio: state.tradeHistory (newest first)
    lastCall        \* SpecPortfolio: the arguments of the latest executeTrade
                    \* call, if any (history variable)

vars == <<bot, data, currentPrice, lastProcessedIndex, decision,
          bots, botTradeHistory, intradayData, storePrice, invocations, nextId,
          analysisData, minConsecutiveIntervals, analysis,
          feed, boughtValley,
          selectedStock, realTimeInterval, oneSecondData, shownPrice, pending,
          portfolio, tradeHistory, lastCall>>

decideVars == <<bot, data, currentPrice, lastProcessedIndex, decision>>
storeVars == <<bots, botTradeHistory, intradayData, storePrice, invocations, nextId>>
analysisVars == <<analysisData, minConsecutiveIntervals, analysis>>
feedVars == <<feed, boughtValley>>
realTimeVars == <<selectedStock, realTimeInterval, oneSecondData, shownPrice, pending>>
portfolioVars == <<portfolio, tradeHistory, lastCall>>
\* the variables that SpecDecide, Spec and SpecAnalysis leave alone
restVars == <<feedVars, realTimeVars, portfolioVars>>

-----------------------------------------------------------------------------
(* Bounds of the model *)

MaxPrice == 2
MaxLen == 3
MaxBots == 1
MaxTrades == 3
MaxInvocations == 2
MaxHistory == 2
MaxBeatPrice == 4
MaxBeatLen == 6
MaxRun == 3
MaxFeed == 6
WindowSize == 3
MaxPending == 2
MaxSeconds == 2
MaxPortfolioTrades == 4

(* Program constants (money in cents) *)

DefaultProfitTakingPercentage == 10
DefaultDollarDropTrigger == 10
DefaultConsecutiveFallsCount == 3
DefaultDollarDropThreshold == 500
PriceHistoryCap == 20
DefaultFirstDelay == 15
DefaultSecondDelay == 30
RandomScale == 1000
BotVirtualCash == 1000000
StartCash == 1000000
MinTrendData == 2
DefaultMinConsecutiveIntervals == 4
MinLossData == 4
MinProfitDataPoints == 3
ExcludedBeats == 2

-----------------------------------------------------------------------------
(* Optional values and exact fractions *)

None == <<>>
Some(x) == <<x>>
IsSome(o) == o # <<>>
Get(o) == o[1]

RECURSIVE Gcd(_, _)
Gcd(a, b) == IF b = 0 THEN a ELSE Gcd(b, a % b)

Abs(x) == IF x < 0 THEN -x ELSE x

Frac(n, d) ==
    LET g == Gcd(Abs(n), d) IN <<n \div g, d \div g>>

Q(n) == <<n, 1>>
QLt(a, b) == a[1] * b[2] < b[1] * a[2]
QLe(a, b) == a[1] * b[2] <= b[1] * a[2]
QSub(a, b) == Frac(a[1] * b[2] - b[1] * a[2], a[2] * b[2])
QMul(a, b) == Frac(a[1] * b[1], a[2] * b[2])

\* x || dflt of the source for a number: 0 and a missing value give dflt
OrDefault(x, dflt) == IF x = 0 THEN dflt ELSE x

Last(s) == s[Len(s)]

\* mutant: nothing is cut off
SliceLast_All(s, n) == s

\* arr.slice(-n)
SliceLast(s, n) ==
    IF Len(s) <= n THEN s ELSE SubSeq(s, Len(s) - n + 1, Len(s))

Reason(text, args) == [text |-> text, args |-> args]

-----------------------------------------------------------------------------
(* Direction-change detector *)

DirectionChangePoint(i, price, type) ==
    [index |-> i, price |-> price, type |-> type]

\* mutant: an equal neighbour counts as a turn
DirectionChangeAt_Ties(series, i) ==
    LET prevPrice == series[i]
        curPrice == series[i + 1]
        nextPrice == series[i + 2]
    IN  IF prevPrice >= curPrice /\ curPrice <= nextPrice
        THEN <<DirectionChangePoint(i, curPrice, "valley")>>
        ELSE IF prevPrice <= curPrice /\ curPrice >= nextPrice
        THEN <<DirectionChangePoint(i, curPrice, "peak")>>
        ELSE <<>>

\* the body of the loop of getDirectionChangePoints for index i
DirectionChangeAt(series, i) ==
    LET prevPrice == series[i]
        curPrice == series[i + 1]
        nextPrice == series[i + 2]
        isLocalMin == prevPrice > curPrice /\ curPrice < nextPrice
        isLocalMax == prevPrice < curPrice /\ curPrice > nextPrice
    IN  IF isLocalMin THEN <<DirectionChangePoint(i, curPrice, "valley")>>
        ELSE IF isLocalMax THEN <<DirectionChangePoint(i, curPrice, "peak")>>
        ELSE <<>>

RECURSIVE DirectionChangesFrom(_, _)
DirectionChangesFrom(series, i) ==
    IF i < Len(series) - 1
    THEN DirectionChangeAt(series, i) \o DirectionChangesFrom(series, i + 1)
    ELSE <<>>

getDirectionChangePoints(series) ==
    IF Len(series) < 3 THEN <<>> ELSE DirectionChangesFrom(series, 1)

getLastDirectionChangePoint(series) ==
    LET directionChanges == getDirectionChangePoints(series)
    IN  IF Len(directionChanges) > 0 THEN Some(Last(directionChanges)) ELSE None

-----------------------------------------------------------------------------
(* Strategy evaluators *)

shouldBuyDirectionChangeReference(series, price) ==
    LET lastDirectionChange == getLastDirectionChangePoint(series)
    IN  IF ~IsSome(lastDirectionChange)
        THEN [shouldBuy |-> FALSE, referencePoint |-> None]
        ELSE [shouldBuy |-> price > Get(lastDirectionChange).price,
              referencePoint |-> lastDirectionChange]

shouldSellDirectionChangeReference(b, price) ==
    IF ~IsSome(b.currentPosition)
    THEN [shouldSell |-> FALSE, reason |-> Reason("No current position", <<>>)]
    ELSE LET buyPrice == Get(b.currentPosition).buyPrice
             \* bot.settings.dollarDropThreshold || 5: undefined and 0 give 5
             dollarDropThreshold ==
                 IF IsSome(b.settings.dollarDropThreshold)
                 THEN OrDefault(Get(b.settings.dollarDropThreshold),
                                DefaultDollarDropThreshold)
                 ELSE DefaultDollarDropThreshold
             priceDrop == QSub(buyPrice, Q(price))
             shouldSell == QLe(Q(dollarDropThreshold), priceDrop)
         IN  [shouldSell |-> shouldSell,
              reason |-> IF shouldSell
                         THEN Reason("Price dropped from buy price", <<priceDrop, buyPrice>>)
                         ELSE Reason("Price drop below threshold",
                                     <<priceDrop, Q(dollarDropThreshold)>>)]

\* mutant: a valley at lastProcessedIndex itself counts as new
shouldBuyDirectionChangeBuy_Again(series, lpi) ==
    IF Len(series) < 3 THEN [shouldBuy |-> FALSE, newDirectionChange |-> None]
    ELSE LET directionChanges == getDirectionChangePoints(series)
         IN  IF Len(directionChanges) = 0
             THEN [shouldBuy |-> FALSE, newDirectionChange |-> None]
             ELSE LET lastChange == Last(directionChanges)
                      isNewValley ==
                          /\ lastChange.type = "valley"
                          /\ (~IsSome(lpi) \/ lastChange.index >= Get(lpi))
                  IN  [shouldBuy |-> isNewValley,
                       newDirectionChange |->
                           IF isNewValley THEN Some(lastChange) ELSE None]

shouldBuyDirectionChangeBuy(series, lpi) ==
    IF Len(series) < 3 THEN [shouldBuy |-> FALSE, newDirectionChange |-> None]
    ELSE LET directionChanges == getDirectionChangePoints(series)
         IN  IF Len(directionChanges) = 0
             THEN [shouldBuy |-> FALSE, newDirectionChange |-> None]
             ELSE LET lastChange == Last(directionChanges)
                      isNewValley ==
                          /\ lastChange.type = "valley"
                          /\ (~IsSome(lpi) \/ lastChange.index > Get(lpi))
                  IN  [shouldBuy |-> isNewValley,
                       newDirectionChange |->
                           IF isNewValley THEN Some(lastChange) ELSE None]

\* mutant: buys on a peak
shouldBuyTrendReversal_Peak(series) ==
    IF Len(series) < 3 THEN FALSE
    ELSE LET directionChanges == getDirectionChangePoints(series)
         IN  IF Len(directionChanges) = 0 THEN FALSE
             ELSE Last(directionChanges).type = "peak"

shouldBuyTrendReversal(series) ==
    IF Len(series) < 3 THEN FALSE
    ELSE LET directionChanges == getDirectionChangePoints(series)
         IN  IF Len(directionChanges) = 0 THEN FALSE
             ELSE Last(directionChanges).type = "valley"

shouldSellTrendReversal(series) ==
    IF Len(series) < 3 THEN FALSE
    ELSE LET directionChanges == getDirectionChangePoints(series)
         IN  IF Len(directionChanges) = 0 THEN FALSE
             ELSE Last(directionChanges).type = "peak"

shouldBuyPriceComparison(series) ==
    IF Len(series) < 2 THEN FALSE
    ELSE series[Len(series)] > series[Len(series) - 1]

shouldSellPriceComparison(series) ==
    IF Len(series) < 2 THEN FALSE
    ELSE series[Len(series)] < series[Len(series) - 1]

shouldBuySlopeAnalysis(series) ==
    IF Len(series) < 2 THEN FALSE
    ELSE series[Len(series)] > series[Len(series) - 1]

shouldSellSlopeAnalysis(series) ==
    IF Len(series) < 2 THEN FALSE
    ELSE series[Len(series)] < series[Len(series) - 1]

\* mutant: a series too short to have an interval counts as falling
isLastIntervalDownward_Short(series) ==
    IF Len(series) < 2 THEN TRUE
    ELSE series[Len(series)] < series[Len(series) - 1]

isLastIntervalDownward(series) ==
    IF Len(series) < 2 THEN FALSE
    ELSE series[Len(series)] < series[Len(series) - 1]

\* mutant: a sample equal to the price counts as upward
simulatePriceCheckAfterDelay_NotBelow(series, delaySeconds, price, r) ==
    [price |-> QMul(price, Frac(RandomScale + r, RandomScale)),
     isUpward |-> QLe(price, QMul(price, Frac(RandomScale + r, RandomScale)))]

\* Math.random() is an input: r is the drawn change (Math.random() - 0.5) * 0.01
\* in units of 1 / RandomScale, and price is an exact fraction
simulatePriceCheckAfterDelay(series, delaySeconds, price, r) ==
    LET simulatedPrice == QMul(price, Frac(RandomScale + r, RandomScale))
    IN  [price |-> simulatedPrice, isUpward |-> QLt(price, simulatedPrice)]

shouldBuyConfirmedRecovery(series, price, firstDelaySeconds, secondDelaySeconds, r1, r2) ==
    IF ~isLastIntervalDownward(series)
    THEN [shouldBuy |-> FALSE,
          reason |-> Reason("Last interval is not in downward direction", <<>>)]
    ELSE LET firstCheck ==
                 simulatePriceCheckAfterDelay(series, firstDelaySeconds, Q(price), r1)
         IN  IF firstCheck.isUpward
             THEN [shouldBuy |-> FALSE,
                   reason |-> Reason("After first delay, price went up instead of continuing down",
                                     <<Q(firstDelaySeconds)>>)]
             ELSE LET secondCheck ==
                          simulatePriceCheckAfterDelay(series, secondDelaySeconds,
                                                       firstCheck.price, r2)
                  IN  IF ~secondCheck.isUpward
                      THEN [shouldBuy |-> FALSE,
                            reason |-> Reason("After second delay, price is still not showing upward movement",
                                              <<Q(secondDelaySeconds)>>)]
                      ELSE [shouldBuy |-> TRUE,
                            reason |-> Reason("Confirmed recovery",
                                              <<Q(firstDelaySeconds), Q(secondDelaySeconds)>>)]

-----------------------------------------------------------------------------
(* JavaScript numbers *)

\* a JavaScript number is an IEEE 754 double: sign * m * 2^e with a mantissa
\* of 53 bits, every operation rounding its exact result to the nearest such
\* value, ties to even. Mantissas are naturals written in limbs, lowest first.
LimbBase == 32768
LimbBits == 15
MantissaBits == 53

RECURSIVE Pow2Int(_)
Pow2Int(n) == IF n = 0 THEN 1 ELSE 2 * Pow2Int(n - 1)

RECURSIVE NNorm(_)
NNorm(a) ==
    IF a = <<>> THEN a
    ELSE IF a[Len(a)] = 0 THEN NNorm(SubSeq(a, 1, Len(a) - 1))
    ELSE a

Rest(a) == IF a = <<>> THEN a ELSE Tail(a)
First(a) == IF a = <<>> THEN 0 ELSE Head(a)

RECURSIVE NAddC(_, _, _)
NAddC(a, b, c) ==
    IF a = <<>> /\ b = <<>> THEN (IF c = 0 THEN <<>> ELSE <<c>>)
    ELSE <<(First(a) + First(b) + c) % LimbBase>>
         \o NAddC(Rest(a), Rest(b), (First(a) + First(b) + c) \div LimbBase)

NAdd(a, b) == NAddC(a, b, 0)

\* a - b - c for a >= b + c, not normalised
RECURSIVE NSubB(_, _, _)
NSubB(a, b, c) ==
    IF a = <<>> THEN <<>>
    ELSE <<(Head(a) - First(b) - c) % LimbBase>>
         \o NSubB(Tail(a), Rest(b), IF Head(a) - First(b) - c < 0 THEN 1 ELSE 0)

NSub(a, b) == NNorm(NSubB(a, b, 0))

\* -1, 0, 1 as a < b, a = b, a > b, reading from limb i downwards
RECURSIVE NCmpFrom(_, _, _)
NCmpFrom(a, b, i) ==
    IF i = 0 THEN 0
    ELSE IF a[i] < b[i] THEN -1
    ELSE IF a[i] > b[i] THEN 1
    ELSE NCmpFrom(a, b, i - 1)

NCmp(a, b) ==
    IF Len(a) < Len(b) THEN -1
    ELSE IF Len(a) > Len(b) THEN 1
    ELSE NCmpFrom(a, b, Len(a))

RECURSIVE NMulSmall(_, _, _)
NMulSmall(a, m, c) ==
    IF a = <<>> THEN (IF c = 0 THEN <<>> ELSE <<c>>)
    ELSE <<(Head(a) * m + c) % LimbBase>>
         \o NMulSmall(Tail(a), m, (Head(a) * m + c) \div LimbBase)

RECURSIVE NMulRaw(_, _)
NMulRaw(a, b) ==
    IF b = <<>> THEN <<>>
    ELSE NAdd(NMulSmall(a, Head(b), 0), <<0>> \o NMulRaw(a, Tail(b)))

NMul(a, b) == NNorm(NMulRaw(a, b))

RECURSIVE NFromInt(_)
NFromInt(n) ==
    IF n = 0 THEN <<>> ELSE <<n % LimbBase>> \o NFromInt(n \div LimbBase)

RECURSIVE IntBitLen(_)
IntBitLen(n) == IF n = 0 THEN 0 ELSE 1 + IntBitLen(n \div 2)

BitLen(a) ==
    IF a = <<>> THEN 0 ELSE (Len(a) - 1) * LimbBits + IntBitLen(a[Len(a)])

Bit(a, i) ==
    IF i \div LimbBits + 1 > Len(a) THEN 0
    ELSE (a[i \div LimbBits + 1] \div Pow2Int(i % LimbBits)) % 2

Pow2(n) ==
    [i \in 1..(n \div LimbBits + 1) |->
        IF i = n \div LimbBits + 1 THEN Pow2Int(n % LimbBits) ELSE 0]

NShl(a, n) == IF a = <<>> THEN a ELSE NMul(a, Pow2(n))

\* the largest m in lo..hi with b * m <= r
RECURSIVE FindLimb(_, _, _, _)
FindLimb(b, r, lo, hi) ==
    IF lo = hi THEN lo
    ELSE IF NCmp(NMulSmall(b, (lo + hi + 1) \div 2, 0), r) <= 0
    THEN FindLimb(b, r, (lo + hi + 1) \div 2, hi)
    ELSE FindLimb(b, r, lo, (lo + hi + 1) \div 2 - 1)

DivLimbM(prev, b, r, m) ==
    <<NNorm(<<m>> \o prev[1]),
      IF m = 0 THEN r ELSE NSub(r, NMulSmall(b, m, 0))>>

DivLimbR(prev, b, r) == DivLimbM(prev, b, r, FindLimb(b, r, 0, LimbBase - 1))

DivLimbP(prev, a, b, i) == DivLimbR(prev, b, NNorm(<<a[i]>> \o prev[2]))

\* long division of the limbs i.. of a by b > 0: <<quotient, remainder>>
RECURSIVE DivFrom(_, _, _)
DivFrom(a, b, i) ==
    IF i > Len(a) THEN <<<<>>, <<>>>>
    ELSE DivLimbP(DivFrom(a, b, i + 1), a, b, i)

NDivMod(a, b) == DivFrom(a, b, 1)

Double(sign, m, e) == [sign |-> sign, m |-> m, e |-> e]
Zero == Double(0, <<>>, 0)

\* a mantissa that rounding has carried to 54 bits is halved
Rounded(sign, m, e) ==
    IF BitLen(m) > MantissaBits
    THEN Double(sign, NDivMod(m, <<2>>)[1], e + 1)
    ELSE Double(sign, m, e)

\* round to nearest, ties to even: half compares the dropped bits with one
\* half, sticky tells that the exact value lies above them
RoundHalf(sign, dm, e, half, sticky) ==
    Rounded(sign,
            IF half > 0 \/ (half = 0 /\ (sticky \/ Bit(dm[1], 0) = 1))
            THEN NAddC(dm[1], <<>>, 1) ELSE dm[1],
            e)

RoundParts(sign, dm, e, drop, sticky) ==
    RoundHalf(sign, dm, e + drop, NCmp(NAdd(dm[2], dm[2]), Pow2(drop)), sticky)

\* q cut to its leading 53 bits
RoundCut(sign, q, e, drop, sticky) ==
    RoundParts(sign, NDivMod(q, Pow2(drop)), e, drop, sticky)

RoundQuotient(sign, dm, e) ==
    RoundCut(sign, dm[1], e, BitLen(dm[1]) - MantissaBits, dm[2] # <<>>)

\* the double nearest to sign * (num / den) * 2^e, for num, den > 0
RoundShifted(sign, num, den, e, s) ==
    IF s >= 0
    THEN RoundQuotient(sign, NDivMod(NShl(num, s), den), e - s)
    ELSE RoundQuotient(sign, NDivMod(num, NShl(den, -s)), e - s)

RoundRat(sign, num, den, e) ==
    RoundShifted(sign, num, den, e, MantissaBits + 1 - (BitLen(num) - BitLen(den)))

\* the double nearest to n / d, d > 0
DFromRatio(n, d) ==
    IF n = 0 THEN Zero
    ELSE RoundRat(IF n < 0 THEN -1 ELSE 1, NFromInt(IF n < 0 THEN -n ELSE n),
                  NFromInt(d), 0)

DMul(x, y) ==
    IF x.sign = 0 \/ y.sign = 0 THEN Zero
    ELSE RoundRat(x.sign * y.sign, NMul(x.m, y.m), <<1>>, x.e + y.e)

\* x / y for y # 0
DDiv(x, y) ==
    IF x.sign = 0 THEN Zero
    ELSE RoundRat(x.sign * y.sign, x.m, y.m, x.e - y.e)

ExpMin(x, y) == IF x.e < y.e THEN x.e ELSE y.e

\* the mantissa of x at the exponent e <= x.e
Aligned(x, e) == NShl(x.m, x.e - e)

\* -1, 0, 1 as |x| < |y|, |x| = |y|, |x| > |y|
MagCmp(x, y) ==
    IF x.sign = 0 \/ y.sign = 0
    THEN (IF x.sign # 0 THEN 1 ELSE IF y.sign # 0 THEN -1 ELSE 0)
    ELSE NCmp(Aligned(x, ExpMin(x, y)), Aligned(y, ExpMin(x, y)))

DCmp(x, y) ==
    IF x.sign # y.sign THEN (IF x.sign < y.sign THEN -1 ELSE 1)
    ELSE x.sign * MagCmp(x, y)

DGe(x, y) == DCmp(x, y) >= 0

\* x - y for x, y >= 0
DSubAt(x, y, e, c) ==
    IF c = 0 THEN Zero
    ELSE IF c > 0
    THEN RoundRat(1, NSub(Aligned(x, e), Aligned(y, e)), <<1>>, e)
    ELSE RoundRat(-1, NSub(Aligned(y, e), Aligned(x, e)), <<1>>, e)

DSub(x, y) ==
    IF y.sign = 0 THEN x
    ELSE IF x.sign = 0 THEN Double(-1, y.m, y.e)
    ELSE DSubAt(x, y, ExpMin(x, y), MagCmp(x, y))

\* a price of the model, in cents, as the number of dollars the code holds
DCents(c) == DFromRatio(c, 100)
DInt(n) == DFromRatio(n, 1)
\* a price kept as the fraction q of cents
DPrice(q) == DFromRatio(q[1], 100 * q[2])

-----------------------------------------------------------------------------
(* Protective overlay *)

\* the loop counting the price drops from the end of the history
RECURSIVE CountFallsFrom(_, _)
CountFallsFrom(history, i) ==
    IF i > 1 /\ QLt(history[i], history[i - 1])
    THEN 1 + CountFallsFrom(history, i - 1)
    ELSE 0

OverlayResult(shouldSell, reason, updatePosition) ==
    [shouldSell |-> shouldSell, reason |-> reason, updatePosition |-> updatePosition]

\* mutant: the profit-taking sub-rule is never taken
ProfitTakingFires_Never(b, price, series) == FALSE

\* profitLossPercentage >= threshold, or the dollar threshold reached
ReachedWith(profitLoss, investedAmount, percentage, dollars) ==
    \/ DGe(DMul(DDiv(profitLoss, investedAmount), DInt(100)), DInt(percentage))
    \/ (dollars > 0 /\ DGe(profitLoss, DCents(dollars)))

ReachedFrom(currentValue, investedAmount, percentage, dollars) ==
    ReachedWith(DSub(currentValue, investedAmount), investedAmount,
                percentage, dollars)

\* reachedProfitThreshold, computed as the code computes it on numbers
ReachedProfitThreshold(buyPrice, shares, price, percentage, dollars) ==
    ReachedFrom(DMul(DCents(price), DInt(shares)),
                DMul(DPrice(buyPrice), DInt(shares)), percentage, dollars)

\* priceDropFromPrevious >= dollarDropTrigger
PriceDropReached(previousPrice, price, trigger) ==
    DGe(DSub(DCents(previousPrice), DCents(price)), DCents(trigger))

\* k = <<buyPrice, shares, currentPrice, previousPrice, profitTakingPercentage,
\* profitTakingDollarAmount, dollarDropTriggerAmount>>
ProfitTakingOutcome(k) ==
    /\ ReachedProfitThreshold(k[1], k[2], k[3],
                              OrDefault(k[5], DefaultProfitTakingPercentage), k[6])
    /\ PriceDropReached(k[4], k[3], OrDefault(k[7], DefaultDollarDropTrigger))

\* the profit-taking settings of the bounded inputs
ProfitOff == [enabled |-> FALSE, percentage |-> 0, dollars |-> 0, trigger |-> 0]
ProfitChoices ==
    {ProfitOff,
     [enabled |-> TRUE, percentage |-> 50, dollars |-> 0, trigger |-> 1],
     [enabled |-> TRUE, percentage |-> 500, dollars |-> 1, trigger |-> 1]}

\* the outcomes for the inputs of the bounded sets, computed once
ProfitTakingKeys ==
    {<<Q(c[1]), 2, c[2], c[3], c[4].percentage, c[4].dollars, c[4].trigger>> :
        c \in (1..MaxPrice) \X (1..(MaxPrice + 1)) \X (1..(MaxPrice + 2))
              \X (ProfitChoices \ {ProfitOff})}

ProfitTakingMemo == {<<k, ProfitTakingOutcome(k)>> : k \in ProfitTakingKeys}

ProfitTakingLookup(k) ==
    IF k \in ProfitTakingKeys
    THEN (CHOOSE p \in ProfitTakingMemo : p[1] = k)[2]
    ELSE ProfitTakingOutcome(k)

\* the profit-taking sub-rule: TRUE when it returns the SELL
ProfitTakingFires(b, price, series) ==
    /\ b.settings.profitTakingEnabled
    /\ Len(series) >= 2
    /\ ProfitTakingLookup(<<Get(b.currentPosition).buyPrice,
                            Get(b.currentPosition).shares,
                            price, series[Len(series) - 1],
                            b.settings.profitTakingPercentage,
                            b.settings.profitTakingDollarAmount,
                            b.settings.dollarDropTriggerAmount>>)

\* mutant: the comparison with the buy price made strict
SellAtBuyPriceFires_Strict(b, price) ==
    /\ b.settings.sellAtBuyPriceEnabled
    /\ QLt(Q(price), Get(b.currentPosition).buyPrice)

\* the sell-at-buy-price sub-rule: TRUE when it returns the SELL
SellAtBuyPriceFires(b, price) ==
    /\ b.settings.sellAtBuyPriceEnabled
    /\ QLe(Q(price), Get(b.currentPosition).buyPrice)

\* the consecutive-falls sub-rule: the result it returns when it is reached
ConsecutiveFallsResult(b, price) ==
    LET pos == Get(b.currentPosition)
        fallsThreshold ==
            OrDefault(b.settings.consecutiveFallsCount, DefaultConsecutiveFallsCount)
        priceHistory ==
            IF IsSome(pos.priceHistory) THEN Get(pos.priceHistory)
            ELSE <<pos.buyPrice>>
        updatedPriceHistory == Append(priceHistory, Q(price))
        recentPriceHistory == SliceLast(updatedPriceHistory, PriceHistoryCap)
        consecutiveFalls ==
            CountFallsFrom(recentPriceHistory, Len(recentPriceHistory))
    IN  IF consecutiveFalls >= fallsThreshold
        THEN OverlayResult(TRUE,
                 Reason("Price fell for consecutive live updates",
                        <<Q(consecutiveFalls)>>),
                 Some([priceHistory |-> <<Q(price)>>, consecutiveFalls |-> 0]))
        ELSE OverlayResult(FALSE,
                 Reason("Consecutive live falls",
                        <<Q(consecutiveFalls), Q(fallsThreshold)>>),
                 Some([priceHistory |-> recentPriceHistory,
                       consecutiveFalls |-> consecutiveFalls]))

ProfitTakingResult(price, series) ==
    OverlayResult(TRUE,
        Reason("Profit target reached and price dropped",
               <<Q(series[Len(series) - 1] - price)>>), None)

SellAtBuyPriceResult(b, price) ==
    OverlayResult(TRUE,
        Reason("Price fell to/below buy price",
               <<Q(price), Get(b.currentPosition).buyPrice>>), None)

\* mutant: the consecutive-falls sub-rule is tested before the other two
shouldSellWithDollarDrop_FallsFirst(b, price, series) ==
    IF ~IsSome(b.currentPosition)
    THEN OverlayResult(FALSE, Reason("No current position", <<>>), None)
    ELSE IF b.settings.consecutiveFallsEnabled
    THEN ConsecutiveFallsResult(b, price)
    ELSE IF ProfitTakingFires(b, price, series)
    THEN ProfitTakingResult(price, series)
    ELSE IF SellAtBuyPriceFires(b, price)
    THEN SellAtBuyPriceResult(b, price)
    ELSE OverlayResult(FALSE, Reason("Dollar Drop conditions not met", <<>>), None)

shouldSellWithDollarDrop(b, price, series) ==
    IF ~IsSome(b.currentPosition)
    THEN OverlayResult(FALSE, Reason("No current position", <<>>), None)
    ELSE IF ProfitTakingFires(b, price, series)
    THEN ProfitTakingResult(price, series)
    ELSE IF SellAtBuyPriceFires(b, price)
    THEN SellAtBuyPriceResult(b, price)
    ELSE IF b.settings.consecutiveFallsEnabled
    THEN ConsecutiveFallsResult(b, price)
    ELSE OverlayResult(FALSE, Reason("Dollar Drop conditions not met", <<>>), None)

-----------------------------------------------------------------------------
(* Decision dispatcher *)

Decision(action, reason, referencePoint, newDirectionChange, updatePosition) ==
    [action |-> action, reason |-> reason, referencePoint |-> referencePoint,
     newDirectionChange |-> newDirectionChange, updatePosition |-> updatePosition]

\* the series' last two prices, as the reasons quote them
LastTwo(series) == <<Q(series[Len(series)]), Q(series[Len(series) - 1])>>

\* lines 387-576: the dispatch on settings.tradingMethod
StrategyDecision(b, series, price, lpi, r1, r2) ==
    LET tradingMethod ==
            IF b.settings.tradingMethod = "" THEN "trend_reversal"
            ELSE b.settings.tradingMethod
        hasPosition == IsSome(b.currentPosition)
    IN  CASE tradingMethod = "price_comparison" ->
               IF ~hasPosition
               THEN IF shouldBuyPriceComparison(series) /\ Len(series) >= 2
                    THEN Decision("BUY", Reason("Current price > previous price", LastTwo(series)),
                                  None, None, None)
                    ELSE Decision("HOLD",
                             IF Len(series) >= 2
                             THEN Reason("Current price <= previous price", LastTwo(series))
                             ELSE Reason("Insufficient data for price comparison", <<>>),
                             None, None, None)
               ELSE IF shouldSellPriceComparison(series) /\ Len(series) >= 2
                    THEN Decision("SELL", Reason("Current price < previous price", LastTwo(series)),
                                  None, None, None)
                    ELSE Decision("HOLD",
                             IF Len(series) >= 2
                             THEN Reason("Current price >= previous price", LastTwo(series))
                             ELSE Reason("Insufficient data for price comparison", <<>>),
                             None, None, None)
          [] tradingMethod = "slope_analysis" ->
               IF ~hasPosition
               THEN IF shouldBuySlopeAnalysis(series) /\ Len(series) >= 2
                    THEN Decision("BUY", Reason("Positive slope", LastTwo(series)),
                                  None, None, None)
                    ELSE Decision("HOLD",
                             IF Len(series) >= 2
                             THEN Reason("Negative/flat slope", LastTwo(series))
                             ELSE Reason("Insufficient data for slope analysis", <<>>),
                             None, None, None)
               ELSE IF shouldSellSlopeAnalysis(series) /\ Len(series) >= 2
                    THEN Decision("SELL", Reason("Negative slope", LastTwo(series)),
                                  None, None, None)
                    ELSE Decision("HOLD",
                             IF Len(series) >= 2
                             THEN Reason("Positive/flat slope", LastTwo(series))
                             ELSE Reason("Insufficient data for slope analysis", <<>>),
                             None, None, None)
          [] tradingMethod = "direction_change_reference" ->
               IF ~hasPosition
               THEN LET res == shouldBuyDirectionChangeReference(series, price)
                    IN  IF res.shouldBuy /\ IsSome(res.referencePoint)
                        THEN Decision("BUY",
                                 Reason("Current price > last direction change",
                                        <<Q(price), Q(Get(res.referencePoint).price)>>),
                                 res.referencePoint, None, None)
                        ELSE Decision("HOLD",
                                 IF IsSome(res.referencePoint)
                                 THEN Reason("Current price <= last direction change",
                                             <<Q(price), Q(Get(res.referencePoint).price)>>)
                                 ELSE Reason("No direction change reference point found", <<>>),
                                 res.referencePoint, None, None)
               ELSE LET res == shouldSellDirectionChangeReference(b, price)
                    IN  Decision(IF res.shouldSell THEN "SELL" ELSE "HOLD", res.reason,
                                 None, None, None)
          [] tradingMethod = "direction_change_buy" ->
               IF ~hasPosition
               THEN LET res == shouldBuyDirectionChangeBuy(series, lpi)
                    IN  IF res.shouldBuy /\ IsSome(res.newDirectionChange)
                        THEN Decision("BUY",
                                 Reason("Direction changed from DOWN to UP",
                                        <<Q(Get(res.newDirectionChange).price)>>),
                                 None, res.newDirectionChange, None)
                        ELSE Decision("HOLD",
                                 Reason("Waiting for new direction change from DOWN to UP", <<>>),
                                 None, None, None)
               ELSE IF shouldSellTrendReversal(series)
                    THEN Decision("SELL", Reason("Trend changed from UP to DOWN", <<>>),
                                  None, None, None)
                    ELSE Decision("HOLD", Reason("Holding position, trend still up", <<>>),
                                  None, None, None)
          [] tradingMethod = "confirmed_recovery" ->
               IF ~hasPosition
               THEN LET firstDelay ==
                            OrDefault(b.settings.confirmedRecoveryFirstDelay, DefaultFirstDelay)
                        secondDelay ==
                            OrDefault(b.settings.confirmedRecoverySecondDelay, DefaultSecondDelay)
                        res == shouldBuyConfirmedRecovery(series, price, firstDelay,
                                                          secondDelay, r1, r2)
                    IN  Decision(IF res.shouldBuy THEN "BUY" ELSE "HOLD", res.reason,
                                 None, None, None)
               ELSE IF shouldSellTrendReversal(series)
                    THEN Decision("SELL", Reason("Trend changed from UP to DOWN", <<>>),
                                  None, None, None)
                    ELSE Decision("HOLD", Reason("Holding position, trend still up", <<>>),
                                  None, None, None)
          [] OTHER ->
               IF ~hasPosition
               THEN IF shouldBuyTrendReversal(series)
                    THEN Decision("BUY", Reason("Trend changed from DOWN to UP", <<>>),
                                  None, None, None)
                    ELSE Decision("HOLD", Reason("Waiting for upward trend reversal", <<>>),
                                  None, None, None)
               ELSE IF shouldSellTrendReversal(series)
                    THEN Decision("SELL", Reason("Trend changed from UP to DOWN", <<>>),
                                  None, None, None)
                    ELSE Decision("HOLD", Reason("Holding position, trend still up", <<>>),
                                  None, None, None)

\* mutant: the position is not looked at, the buy rule always decides
ActiveDecision_IgnoresPosition(b, series, price, lpi, r1, r2) ==
    StrategyDecision([b EXCEPT !.currentPosition = None], series, price, lpi, r1, r2)

\* mutant: an overlay that does not sell always ends the call with its HOLD
ActiveDecision_NeverFallsThrough(b, series, price, lpi, r1, r2) ==
    IF b.settings.dollarDropEnabled /\ IsSome(b.currentPosition)
    THEN LET dollarDropResult == shouldSellWithDollarDrop(b, price, series)
         IN  Decision(IF dollarDropResult.shouldSell THEN "SELL" ELSE "HOLD",
                      dollarDropResult.reason, None, None,
                      dollarDropResult.updatePosition)
    ELSE StrategyDecision(b, series, price, lpi, r1, r2)

\* lines 367-576: the decision for an active bot
ActiveDecision(b, series, price, lpi, r1, r2) ==
    IF b.settings.dollarDropEnabled /\ IsSome(b.currentPosition)
    THEN LET dollarDropResult == shouldSellWithDollarDrop(b, price, series)
         IN  IF dollarDropResult.shouldSell
             THEN Decision("SELL", dollarDropResult.reason, None, None,
                           dollarDropResult.updatePosition)
             ELSE IF IsSome(dollarDropResult.updatePosition)
             THEN Decision("HOLD", dollarDropResult.reason, None, None,
                           dollarDropResult.updatePosition)
             ELSE StrategyDecision(b, series, price, lpi, r1, r2)
    ELSE StrategyDecision(b, series, price, lpi, r1, r2)

\* mutant: the isActive test is missing
makeTradingDecision_NoActiveTest(b, series, price, lpi, r1, r2) ==
    ActiveDecision(b, series, price, lpi, r1, r2)

\* r1, r2: the two values Math.random() yields if the call draws them
makeTradingDecision(b, series, price, lpi, r1, r2) ==
    IF ~b.isActive
    THEN Decision("HOLD", Reason("Bot is inactive", <<>>), None, None, None)
    ELSE ActiveDecision(b, series, price, lpi, r1, r2)

\* mutant: the consecutive-falls path pushes the price onto the stored history
ArgumentsAfterCall_Push(b, series, price) ==
    IF /\ b.isActive
       /\ b.settings.dollarDropEnabled
       /\ IsSome(b.currentPosition)
       /\ b.settings.consecutiveFallsEnabled
       /\ IsSome(Get(b.currentPosition).priceHistory)
    THEN [bot |-> [b EXCEPT !.currentPosition[1].priceHistory[1] = Append(@, Q(price))],
          data |-> series]
    ELSE [bot |-> b, data |-> series]

\* What a call of makeTradingDecision leaves in the objects it was handed:
\* the history is copied ([...priceHistory, currentPrice], slice(-20)) and
\* no statement of the call assigns to a field of bot or to data.
ArgumentsAfterCall(b, series, price) ==
    [bot |-> b, data |-> series]

-----------------------------------------------------------------------------
(* Inputs of the decision engine *)

Prices == 1..MaxPrice

SeriesOfLength(n) == [1..n -> Prices]
AllSeries == UNION {SeriesOfLength(n) : n \in 0..MaxLen}

TradingMethods ==
    {"trend_reversal", "direction_change_reference", "direction_change_buy",
     "price_comparison", "slope_analysis", "confirmed_recovery"}

\* "" is a missing tradingMethod, "unrecognized" a value outside the union type
MethodValues == TradingMethods \cup {"", "unrecognized"}

\* (Math.random() - 0.5) * 0.01 lies in [-0.005, 0.005)
RandomChanges == {-5, 0, 4}

Settings(method, dropThreshold, enabled, profit, sellAtBuy, falls) ==
    [tradingMethod |-> method,
     maxInvestmentPerTrade |-> 2 * MaxPrice,
     investmentType |-> "dollars",
     chartPeriod |-> "1D",
     dollarDropThreshold |-> dropThreshold,
     dollarDropEnabled |-> enabled,
     profitTakingEnabled |-> profit.enabled,
     profitTakingPercentage |-> profit.percentage,
     profitTakingDollarAmount |-> profit.dollars,
     dollarDropTriggerAmount |-> profit.trigger,
     sellAtBuyPriceEnabled |-> sellAtBuy,
     consecutiveFallsEnabled |-> falls.enabled,
     consecutiveFallsCount |-> falls.count,
     confirmedRecoveryFirstDelay |-> 0,
     confirmedRecoverySecondDelay |-> 0]

FallsOff == [enabled |-> FALSE, count |-> 0]
FallsChoices ==
    {FallsOff, [enabled |-> TRUE, count |-> 0], [enabled |-> TRUE, count |-> 1]}

\* a bot's settings as the creation form builds them: the sub-rules and
\* their thresholds are only set when the overlay is enabled, and
\* dollarDropThreshold only for direction_change_reference
DropThresholds(method) ==
    IF method = "direction_change_reference" THEN {None, Some(0), Some(1)} ELSE {None}

ThresholdValues == {None, Some(0), Some(1)}

SettingsChoices ==
    {Settings(m, t, FALSE, ProfitOff, FALSE, FallsOff) :
        <<m, t>> \in {<<m, t>> \in MethodValues \X ThresholdValues :
                         t \in DropThresholds(m)}}
    \cup
    {Settings(c[1], c[2], TRUE, c[3], c[4], c[5]) :
        c \in {c \in MethodValues \X ThresholdValues \X ProfitChoices
                         \X BOOLEAN \X FallsChoices :
                 c[2] \in DropThresholds(c[1])}}

Position(buyPrice, shares, priceHistory, consecutiveFalls) ==
    [buyPrice |-> buyPrice, shares |-> shares, priceHistory |-> priceHistory,
     consecutiveFalls |-> consecutiveFalls]

PositionChoices ==
    {None} \cup
    {Some(Position(Q(bp), 2, None, None)) : bp \in Prices} \cup
    {Some(Position(Q(bp), 2, Some(<<Q(bp)>>), None)) : bp \in Prices}

\* lastProcessedIndex is only ever stored for a direction_change_buy bot
IndexChoices(method) ==
    IF method = "direction_change_buy"
    THEN {None} \cup {Some(i) : i \in 0..(MaxLen - 1)}
    ELSE {None}

Bot(isActive, settings, currentPosition) ==
    [isActive |-> isActive, settings |-> settings, currentPosition |-> currentPosition]

-----------------------------------------------------------------------------
(* SpecDecide: makeTradingDecision applied to every input of the bounded sets *)

\* the stock shown on screen, and a stock that is not
SelectedSymbol == "TSLA"
OtherSymbol == "META"
Symbols == {SelectedSymbol, OtherSymbol}

AnalysisIdle ==
    /\ analysisData = <<>>
    /\ minConsecutiveIntervals = DefaultMinConsecutiveIntervals
    /\ analysis = None

FeedIdle ==
    /\ feed = <<>>
    /\ boughtValley = [id \in 1..MaxBots |-> None]

\* a price that was fetched for no stock
NoPrice == [price |-> 0, symbol |-> None]

RealTimeIdle ==
    /\ selectedStock = SelectedSymbol
    /\ realTimeInterval = None
    /\ oneSecondData = <<>>
    /\ shownPrice = NoPrice
    /\ pending = <<>>

NewPortfolio ==
    [cash |-> StartCash, shares |-> 0, averageBuyPrice |-> 0, totalInvested |-> 0,
     totalValue |-> StartCash, profitLoss |-> 0, profitLossPercentage |-> 0]

PortfolioIdle ==
    /\ portfolio = NewPortfolio
    /\ tradeHistory = <<>>
    /\ lastCall = None

RestIdle == FeedIdle /\ RealTimeIdle /\ PortfolioIdle

StoreIdle ==
    /\ bots = <<>>
    /\ botTradeHistory = <<>>
    /\ intradayData = <<>>
    /\ storePrice = 0
    /\ invocations = <<>>
    /\ nextId = 0

\* Inputs that reach every sub-rule of the overlay: an active bot with the
\* overlay enabled and a position whose stored price history has fallen, has
\* risen or is full, a price above the buy price, and a series whose last
\* interval falls
OverlayMethods == {"trend_reversal", "direction_change_reference"}

OverlaySettingsChoices ==
    {Settings(c[1], Some(1), TRUE, c[2], c[3], c[4]) :
        c \in OverlayMethods \X ProfitChoices \X BOOLEAN \X FallsChoices}

OverlayPrices == 1..(MaxPrice + 1)

FullHistory == [i \in 1..PriceHistoryCap |-> Q(MaxPrice + 1)]

OverlayHistories ==
    {None, Some(<<Q(MaxPrice + 1)>>), Some(<<Q(MaxPrice + 1), Q(MaxPrice)>>),
     Some(<<Q(MaxPrice + 2), Q(MaxPrice + 1), Q(MaxPrice)>>),
     Some(FullHistory), Some(Tail(FullHistory))}

OverlayPositionChoices ==
    {Some(Position(Q(bp), 2, h, None)) : <<bp, h>> \in Prices \X OverlayHistories}

OverlaySeries ==
    {<<MaxPrice + 2, MaxPrice>>, <<MaxPrice, MaxPrice + 1>>,
     <<1, MaxPrice + 1, MaxPrice>>, <<MaxPrice + 1, 1, MaxPrice>>}

InitDecide ==
    /\ \/ /\ \E isActive \in BOOLEAN, settings \in SettingsChoices,
                pos \in PositionChoices :
                bot = Bot(isActive, settings, pos)
          /\ data \in AllSeries
          /\ currentPrice \in Prices
       \/ /\ \E settings \in OverlaySettingsChoices, pos \in OverlayPositionChoices :
                bot = Bot(TRUE, settings, pos)
          /\ data \in OverlaySeries
          /\ currentPrice \in OverlayPrices
    /\ lastProcessedIndex \in IndexChoices(bot.settings.tradingMethod)
    /\ decision = None
    /\ StoreIdle
    /\ AnalysisIdle
    /\ RestIdle

\* Math.random() is drawn only on the confirmed_recovery buy path
RandomDraws(b) ==
    IF b.settings.tradingMethod = "confirmed_recovery" THEN RandomChanges ELSE {0}

\* one call makeTradingDecision(bot, data, currentPrice, lastProcessedIndex)
Decide ==
    /\ \E r1 \in RandomDraws(bot), r2 \in RandomDraws(bot) :
          decision' = Some(makeTradingDecision(bot, data, currentPrice,
                                               lastProcessedIndex, r1, r2))
    /\ bot' = ArgumentsAfterCall(bot, data, currentPrice).bot
    /\ data' = ArgumentsAfterCall(bot, data, currentPrice).data
    /\ UNCHANGED <<currentPrice, lastProcessedIndex>>
    /\ UNCHANGED storeVars
    /\ UNCHANGED analysisVars
    /\ UNCHANGED restVars

NextDecide == Decide

SpecDecide == InitDecide /\ [][NextDecide]_vars

-----------------------------------------------------------------------------
(* Properties of makeTradingDecision (checked under SpecDecide) *)

Decided == IsSome(decision)
HasPosition == IsSome(bot.currentPosition)
Method == bot.settings.tradingMethod
OverlayApplies == bot.settings.dollarDropEnabled /\ HasPosition

\* the sample at 0-based index i is a strict local minimum / maximum
IsValleyAt(series, i) == series[i] > series[i + 1] /\ series[i + 1] < series[i + 2]
IsPeakAt(series, i) == series[i] < series[i + 1] /\ series[i + 1] > series[i + 2]
IsTurnAt(series, i) == IsValleyAt(series, i) \/ IsPeakAt(series, i)
Interior(series) == 1..(Len(series) - 2)

\* the 0-based indices i whose sample is the last turn of the series
LastTurns(series) ==
    {i \in Interior(series) :
        IsTurnAt(series, i) /\ \A j \in Interior(series) : j > i => ~IsTurnAt(series, j)}

LastTurnIsValley(series) == \E i \in LastTurns(series) : IsValleyAt(series, i)
LastTurnIsPeak(series) == \E i \in LastTurns(series) : IsPeakAt(series, i)

\* C1: an active bot holding a position, with dollarDropEnabled and
\* sellAtBuyPriceEnabled, gets SELL whenever currentPrice <= buyPrice, for
\* every tradingMethod, series and setting of the other sub-rules.
C1_SellAtOrBelowBuyPrice ==
    (/\ Decided
     /\ bot.isActive
     /\ HasPosition
     /\ bot.settings.dollarDropEnabled
     /\ bot.settings.sellAtBuyPriceEnabled
     /\ QLe(Q(currentPrice), Get(bot.currentPosition).buyPrice))
    => Get(decision).action = "SELL"

C1_Witness ==
    /\ Decided
    /\ bot.isActive
    /\ HasPosition
    /\ bot.settings.dollarDropEnabled
    /\ bot.settings.sellAtBuyPriceEnabled
    /\ Q(currentPrice) = Get(bot.currentPosition).buyPrice
    /\ Method = "price_comparison"
    /\ data = <<>>
    /\ Get(decision).action = "SELL"
    /\ Get(decision).reason.text = "Price fell to/below buy price"

\* C2: an inactive bot gets HOLD with reason "Bot is inactive" and no
\* updatePosition, newDirectionChange or referencePoint, whatever the inputs.
C2_InactiveHolds ==
    (Decided /\ ~bot.isActive)
    => Get(decision) =
           Decision("HOLD", Reason("Bot is inactive", <<>>), None, None, None)

C2_Witness ==
    /\ Decided
    /\ ~bot.isActive
    /\ HasPosition
    /\ bot.settings.dollarDropEnabled
    /\ bot.settings.sellAtBuyPriceEnabled
    /\ QLe(Q(currentPrice), Get(bot.currentPosition).buyPrice)
    /\ Get(decision).action = "HOLD"

\* C3: makeTradingDecision is deterministic: a second call with the same bot,
\* series, price and lastProcessedIndex returns the decision of the first.
C3_Deterministic ==
    [][Decided => decision' = decision]_vars

\* C5: with tradingMethod trend_reversal, missing or unrecognized, and the
\* overlay not applying, the decision is BUY iff no position and the last
\* direction change is a valley, SELL iff a position and it is a peak, and
\* HOLD otherwise.
C5_TrendReversalFallback ==
    (/\ Decided
     /\ bot.isActive
     /\ Method \in {"trend_reversal", "", "unrecognized"}
     /\ ~OverlayApplies)
    => Get(decision).action =
           IF ~HasPosition
           THEN (IF LastTurnIsValley(data) THEN "BUY" ELSE "HOLD")
           ELSE (IF LastTurnIsPeak(data) THEN "SELL" ELSE "HOLD")

C5_Witness ==
    /\ Decided
    /\ bot.isActive
    /\ Method = "unrecognized"
    /\ ~HasPosition
    /\ LastTurnIsValley(data)
    /\ Get(decision).action = "BUY"

\* C6: a direction_change_buy bot without a position gets BUY iff the newest
\* direction change is a valley with index > lastProcessedIndex (or
\* lastProcessedIndex is undefined); the BUY carries newDirectionChange with
\* that index, and otherwise the decision is HOLD without newDirectionChange.
C6_DirectionChangeBuy ==
    (/\ Decided
     /\ bot.isActive
     /\ Method = "direction_change_buy"
     /\ ~HasPosition)
    => LET fresh == {i \in LastTurns(data) :
                        /\ IsValleyAt(data, i)
                        /\ (~IsSome(lastProcessedIndex) \/ i > Get(lastProcessedIndex))}
       IN  IF fresh # {}
           THEN /\ Get(decision).action = "BUY"
                /\ IsSome(Get(decision).newDirectionChange)
                /\ Get(Get(decision).newDirectionChange).index \in fresh
                /\ Get(Get(decision).newDirectionChange).type = "valley"
           ELSE /\ Get(decision).action = "HOLD"
                /\ Get(decision).newDirectionChange = None

C6_Witness ==
    /\ Decided
    /\ bot.isActive
    /\ Method = "direction_change_buy"
    /\ ~HasPosition
    /\ lastProcessedIndex = Some(0)
    /\ Get(decision).action = "BUY"
    /\ Get(Get(decision).newDirectionChange).index = 1

\* the minimum sample counts as the spec's table states them
StatedMinimum(method) ==
    IF method \in {"price_comparison", "slope_analysis"} THEN 2 ELSE 3

\* the minimum sample counts for which the code never buys below them
CodeMinimum(method) ==
    IF method \in {"price_comparison", "slope_analysis", "confirmed_recovery"}
    THEN 2 ELSE 3

\* C8 as stated: without a position, no BUY on a series shorter than the
\* strategy's stated minimum (3 for confirmed_recovery).
C8_NoBuyBelowStatedMinimum ==
    (Decided /\ ~HasPosition /\ Len(data) < StatedMinimum(Method))
    => Get(decision).action # "BUY"

\* C8 amended: without a position, no BUY on a series shorter than 3 samples
\* for trend_reversal (also as the fallback), direction_change_reference and
\* direction_change_buy, or shorter than 2 samples for price_comparison,
\* slope_analysis and confirmed_recovery.
C8_NoBuyBelowCodeMinimum ==
    (Decided /\ ~HasPosition /\ Len(data) < CodeMinimum(Method))
    => Get(decision).action # "BUY"

C8_Witness ==
    /\ Decided
    /\ bot.isActive
    /\ ~HasPosition
    /\ Method = "confirmed_recovery"
    /\ Len(data) = 1
    /\ Get(decision).action = "HOLD"
    /\ Get(decision).reason.text = "Last interval is not in downward direction"

BuyPrice == Get(bot.currentPosition).buyPrice

\* the threshold the bot is configured with, 5 dollars when none is
ConfiguredDropThreshold ==
    IF IsSome(bot.settings.dollarDropThreshold)
    THEN Get(bot.settings.dollarDropThreshold)
    ELSE 500

\* the last direction-change point of the series, as a set of at most one
LastTurnPoints(series) ==
    {DirectionChangePoint(i, series[i + 1],
                          IF IsValleyAt(series, i) THEN "valley" ELSE "peak") :
        i \in LastTurns(series)}

\* C17: for a direction_change_reference bot to which the overlay does not
\* apply: without a position the decision is BUY iff a direction-change point
\* exists and currentPrice is strictly above the price of the last one, and
\* it carries that point as referencePoint; with a position it is SELL iff
\* buyPrice - currentPrice >= the configured dollarDropThreshold (5 when none
\* is configured), for every configured non-negative threshold; HOLD otherwise.
C17_DirectionChangeReference ==
    (/\ Decided
     /\ bot.isActive
     /\ Method = "direction_change_reference"
     /\ ~OverlayApplies)
    => IF ~HasPosition
       THEN IF \E t \in LastTurnPoints(data) : currentPrice > t.price
            THEN /\ Get(decision).action = "BUY"
                 /\ IsSome(Get(decision).referencePoint)
                 /\ Get(Get(decision).referencePoint) \in LastTurnPoints(data)
            ELSE Get(decision).action = "HOLD"
       ELSE Get(decision).action =
                IF QLe(Q(ConfiguredDropThreshold), QSub(BuyPrice, Q(currentPrice)))
                THEN "SELL" ELSE "HOLD"

\* C17 without the configured threshold 0, which the code replaces by 5
C17_PositiveThreshold ==
    bot.settings.dollarDropThreshold # Some(0) => C17_DirectionChangeReference

\* what the overlay returns for the bot, the price and the series
Overlay == shouldSellWithDollarDrop(bot, currentPrice, data)

\* the action of the selected strategy for the bot (with a position this is
\* the action of its sell evaluator, which draws no random number)
StrategyAction ==
    StrategyDecision(bot, data, currentPrice, lastProcessedIndex, 0, 0).action

\* C18: for an active bot with a position and the overlay enabled, whenever
\* no sub-rule of the overlay fires a SELL the decision is the action of the
\* selected strategy's sell evaluator, for every combination of the sub-rule
\* toggles, consecutiveFallsEnabled included.
C18_FallsThroughToStrategy ==
    (/\ Decided
     /\ bot.isActive
     /\ OverlayApplies
     /\ ~Overlay.shouldSell)
    => Get(decision).action = StrategyAction

\* C18 with the consecutive-falls sub-rule disabled
C18_FallsThroughWithoutTracking ==
    ~bot.settings.consecutiveFallsEnabled => C18_FallsThroughToStrategy

\* the overlay lets the tick pass and the strategy's sell rule sells
C18_Witness ==
    /\ Decided /\ bot.isActive /\ OverlayApplies
    /\ ~bot.settings.consecutiveFallsEnabled
    /\ bot.settings.profitTakingEnabled /\ bot.settings.sellAtBuyPriceEnabled
    /\ ~Overlay.shouldSell
    /\ StrategyAction = "SELL"
    /\ Get(decision).action = "SELL"

Shares == Get(bot.currentPosition).shares
ProfitPerShare == QSub(Q(currentPrice), BuyPrice)

\* the profit-taking condition: the profit has reached the percentage (10
\* when none is set) or the dollar amount, and the last sample of the series
\* lies above the price by the trigger amount (10 cents when none is set)
ProfitCondition ==
    /\ bot.settings.profitTakingEnabled
    /\ \/ QLe(QMul(Q(IF bot.settings.profitTakingPercentage = 0 THEN 10
                     ELSE bot.settings.profitTakingPercentage), BuyPrice),
              QMul(ProfitPerShare, Q(100)))
       \/ /\ bot.settings.profitTakingDollarAmount > 0
          /\ QLe(Q(bot.settings.profitTakingDollarAmount),
                 QMul(ProfitPerShare, Q(Shares)))
    /\ Len(data) >= 2
    /\ data[Len(data) - 1] - currentPrice >=
           (IF bot.settings.dollarDropTriggerAmount = 0 THEN 10
            ELSE bot.settings.dollarDropTriggerAmount)

\* the profit-taking sub-rule returns its SELL
ProfitFires == ProfitTakingFires(bot, currentPrice, data)

SellAtBuyCondition ==
    bot.settings.sellAtBuyPriceEnabled /\ QLe(Q(currentPrice), BuyPrice)

\* the tracked history after this tick: the stored one, or the buy price,
\* followed by the price, cut to its last 20 entries
NewHistory ==
    LET stored == Get(bot.currentPosition).priceHistory
        h == (IF IsSome(stored) THEN Get(stored) ELSE <<BuyPrice>>)
             \o <<Q(currentPrice)>>
    IN  IF Len(h) > 20 THEN SubSeq(h, Len(h) - 19, Len(h)) ELSE h

\* the number of strictly decreasing steps at the end of h
Streak(h) ==
    CHOOSE k \in 0..(Len(h) - 1) :
        /\ \A j \in 1..k : QLt(h[Len(h) - j + 1], h[Len(h) - j])
        /\ k < Len(h) - 1 => ~QLt(h[Len(h) - k], h[Len(h) - k - 1])

ConfiguredFallsCount ==
    IF bot.settings.consecutiveFallsCount = 0 THEN 3
    ELSE bot.settings.consecutiveFallsCount

StreakReached ==
    bot.settings.consecutiveFallsEnabled /\ Streak(NewHistory) >= ConfiguredFallsCount

DecisionText == Get(decision).reason.text

\* C19: the sub-rules are tested in the order profit-taking,
\* sell-at-buy-price, consecutive-falls and the first enabled one whose
\* condition holds decides: the profit-taking SELL carries no updatePosition
\* even if another rule would fire too, the sell-at-buy-price SELL carries no
\* history update even if the streak has reached its count, and a disabled
\* sub-rule never decides.
C19_FirstMatchDecides ==
    (Decided /\ bot.isActive /\ OverlayApplies)
    => /\ ProfitFires =>
             /\ Get(decision).action = "SELL"
             /\ DecisionText = "Profit target reached and price dropped"
             /\ Get(decision).updatePosition = None
       /\ (~ProfitFires /\ SellAtBuyCondition) =>
             /\ Get(decision).action = "SELL"
             /\ DecisionText = "Price fell to/below buy price"
             /\ Get(decision).updatePosition = None
       /\ DecisionText = "Profit target reached and price dropped"
             => bot.settings.profitTakingEnabled
       /\ DecisionText = "Price fell to/below buy price"
             => bot.settings.sellAtBuyPriceEnabled
       /\ DecisionText \in {"Price fell for consecutive live updates",
                            "Consecutive live falls"}
             => bot.settings.consecutiveFallsEnabled

\* the profit-taking SELL on a tick on which the streak has reached its count
C19_Witness ==
    /\ Decided /\ bot.isActive /\ OverlayApplies
    /\ ProfitFires /\ StreakReached
    /\ Get(decision).updatePosition = None

\* C20: when the consecutive-falls sub-rule is reached, the new history is
\* the last at most 20 entries of the stored priceHistory (or [buyPrice])
\* followed by currentPrice and the streak its number of trailing strictly
\* decreasing steps; with streak >= the configured count (3 when none) the
\* result is SELL with updatePosition {priceHistory: [currentPrice],
\* consecutiveFalls: 0}, otherwise a terminal HOLD with updatePosition
\* {priceHistory: new history, consecutiveFalls: streak}; the priceHistory
\* handed back for persisting never exceeds 20 entries.
C20_ConsecutiveFallsTracking ==
    (Decided /\ bot.isActive /\ OverlayApplies)
    => /\ (/\ bot.settings.consecutiveFallsEnabled
           /\ ~ProfitFires
           /\ ~SellAtBuyCondition)
          => IF Streak(NewHistory) >= ConfiguredFallsCount
             THEN /\ Get(decision).action = "SELL"
                  /\ Get(decision).updatePosition =
                         Some([priceHistory |-> <<Q(currentPrice)>>,
                               consecutiveFalls |-> 0])
             ELSE /\ Get(decision).action = "HOLD"
                  /\ Get(decision).updatePosition =
                         Some([priceHistory |-> NewHistory,
                               consecutiveFalls |-> Streak(NewHistory)])
       /\ IsSome(Get(decision).updatePosition)
          => Len(Get(Get(decision).updatePosition).priceHistory) <= 20

\* a full stored history: the oldest entry is dropped on a terminal HOLD
C20_Witness ==
    /\ Decided /\ bot.isActive /\ OverlayApplies
    /\ bot.currentPosition[1].priceHistory = Some(FullHistory)
    /\ Get(decision).action = "HOLD"
    /\ IsSome(Get(decision).updatePosition)
    /\ Len(Get(Get(decision).updatePosition).priceHistory) = 20
    /\ Get(Get(decision).updatePosition).consecutiveFalls = 1

ProfitTakingSell ==
    /\ Get(decision).action = "SELL"
    /\ DecisionText = "Profit target reached and price dropped"

\* C21: with the overlay applying and profit taking enabled, the result is
\* the profit-taking SELL iff (the profit percentage has reached the
\* percentage threshold, 10 when none is configured, or a dollar threshold
\* is configured and the profit in dollars has reached it) and the drop from
\* the previous sample to the price is at least the trigger amount (0.10
\* when none is configured), for prices in whole cents; with fewer than two
\* samples it never fires.
C21_ProfitTaking ==
    (Decided /\ bot.isActive /\ OverlayApplies /\ bot.settings.profitTakingEnabled)
    => (ProfitTakingSell <=> ProfitCondition)

\* C21, the direction the code keeps: a profit-taking SELL is only returned
\* when the stated condition holds
C21_SellOnlyOnCondition ==
    (Decided /\ bot.isActive /\ OverlayApplies /\ bot.settings.profitTakingEnabled)
    => (ProfitTakingSell => ProfitCondition)

\* the call of this state with the draws r1, r2
DecisionWith(r1, r2) ==
    makeTradingDecision(bot, data, currentPrice, lastProcessedIndex, r1, r2)

LastIntervalFalls == Len(data) >= 2 /\ data[Len(data)] < data[Len(data) - 1]

\* the delayed samples that the draws r1, r2 produce
FirstSample(r1) == QMul(Q(currentPrice), Frac(RandomScale + r1, RandomScale))
SecondSample(r1, r2) == QMul(FirstSample(r1), Frac(RandomScale + r2, RandomScale))

C23_BuyFlatSellHeld ==
    Decided
    => /\ Get(decision).action = "BUY" => ~HasPosition
       /\ Get(decision).action = "SELL" => HasPosition
       /\ ~HasPosition => Get(decision).updatePosition = None

\* a bot without a position, with the overlay and all its sub-rules enabled,
\* on a falling price: the strategy decides and no update is handed back
C23_Witness ==
    /\ Decided /\ bot.isActive /\ ~HasPosition
    /\ bot.settings.dollarDropEnabled
    /\ bot.settings.profitTakingEnabled
    /\ bot.settings.sellAtBuyPriceEnabled
    /\ bot.settings.consecutiveFallsEnabled
    /\ Get(decision).action = "BUY"

-----------------------------------------------------------------------------
(* The bot part of the store *)

QAdd(a, b) == Frac(a[1] * b[2] + b[1] * a[2], a[2] * b[2])

Min(a, b) == IF a < b THEN a ELSE b

RECURSIVE SumShares(_)
SumShares(trades) ==
    IF trades = <<>> THEN 0 ELSE Head(trades).shares + SumShares(Tail(trades))

RECURSIVE SumTotal(_)
SumTotal(trades) ==
    IF trades = <<>> THEN 0 ELSE Head(trades).total + SumTotal(Tail(trades))

TradesOf(history, botId, type) ==
    SelectSeq(history, LAMBDA t : t.botId = botId /\ t.type = type)

FindBot(bs, botId) == SelectSeq(bs, LAMBDA b : b.id = botId)

StoreState(bs, history) == [bots |-> bs, botTradeHistory |-> history]

calculateSharesToBuy(maxInvestment, investmentType, price, availableCash) ==
    IF investmentType = "shares"
    THEN Min(maxInvestment, availableCash \div price)
    ELSE Min(maxInvestment, availableCash) \div price

\* executeBotTrade from line 709 on: the trade record, the stats of the bot
\* and the set() that stores both
RecordBotTrade(st, botId, type, shares, price) ==
        LET history == st.botTradeHistory
            total == shares * price
            botBuyTrades == TradesOf(history, botId, "BUY")
            totalShares == SumShares(botBuyTrades)
            avgBuyPrice == IF totalShares > 0
                           THEN Frac(SumTotal(botBuyTrades), totalShares) ELSE Q(0)
            profit == IF type = "SELL" /\ Len(botBuyTrades) > 0
                      THEN QMul(QSub(Q(price), avgBuyPrice), Q(shares))
                      ELSE Q(0)
            newBotTrade == [botId |-> botId, type |-> type, price |-> price,
                            shares |-> shares, total |-> total, profit |-> profit]
            botSellTrades == TradesOf(history, botId, "SELL")
            winningTrades ==
                Len(SelectSeq(Append(botSellTrades, newBotTrade),
                              LAMBDA t : QLt(Q(0), t.profit)))
            totalSellTrades == Len(botSellTrades) + 1
            updatedBots ==
                [i \in 1..Len(st.bots) |->
                    IF st.bots[i].id = botId
                    THEN [st.bots[i] EXCEPT
                             !.stats = [totalTrades |-> @.totalTrades + 1,
                                        totalProfit |-> QAdd(@.totalProfit, profit),
                                        winRate |-> IF type = "SELL"
                                                    THEN Frac(winningTrades * 100, totalSellTrades)
                                                    ELSE @.winRate]]
                    ELSE st.bots[i]]
        IN  StoreState(updatedBots, <<newBotTrade>> \o history)

\* executeBotTrade without the test of line 707
executeBotTrade_Unguarded(st, botId, type, shares, price) ==
    RecordBotTrade(st, botId, type, shares, price)

\* executeBotTrade: reads the store's bots and botTradeHistory as they are now
executeBotTrade(st, botId, type, shares, price) ==
    LET found == FindBot(st.bots, botId)
    IN  IF found = <<>> \/ ~found[1].isActive THEN st
        ELSE RecordBotTrade(st, botId, type, shares, price)

\* set(state => ({bots: state.bots.map(b => b.id === id ? {...b, lastProcessedIndex} : b)}))
SetLastProcessedIndex(st, botId, index) ==
    StoreState([i \in 1..Len(st.bots) |->
                   IF st.bots[i].id = botId
                   THEN [st.bots[i] EXCEPT !.lastProcessedIndex = Some(index)]
                   ELSE st.bots[i]],
               st.botTradeHistory)

\* {...currentPosition, ...decision.updatePosition}
MergePosition(pos, update) ==
    [pos EXCEPT !.priceHistory = Some(update.priceHistory),
                !.consecutiveFalls = Some(update.consecutiveFalls)]

SetCurrentPosition(st, botId, pos) ==
    StoreState([i \in 1..Len(st.bots) |->
                   IF st.bots[i].id = botId
                   THEN [st.bots[i] EXCEPT !.currentPosition = Some(pos)]
                   ELSE st.bots[i]],
               st.botTradeHistory)

\* the position checkAndExecuteBotTrades derives for bot b from the
\* botTradeHistory it read at its start (lines 844-865)
DerivedPosition(b, history) ==
    LET botBuyTrades == TradesOf(history, b.id, "BUY")
        botSellTrades == TradesOf(history, b.id, "SELL")
        totalBought == SumShares(botBuyTrades)
        totalSold == SumShares(botSellTrades)
        currentShares == totalBought - totalSold
        avgBuyPrice == IF totalBought > 0
                       THEN Frac(SumTotal(botBuyTrades), totalBought) ELSE Q(0)
        storedHistory == IF IsSome(b.currentPosition)
                         THEN Get(b.currentPosition).priceHistory ELSE None
    IN  [currentShares |-> currentShares,
         currentPosition |->
             IF currentShares > 0
             THEN Some(Position(avgBuyPrice, currentShares,
                                IF IsSome(storedHistory) THEN storedHistory
                                ELSE Some(<<avgBuyPrice>>),
                                None))
             ELSE None]

\* lines 891-923: the trade that decision d asks for, if the position that
\* was derived from the snapshot allows it
ExecuteDecision(st, b, currentShares, botCurrentPrice, d) ==
    IF d.action = "BUY" /\ currentShares = 0
    THEN LET sharesToBuy == calculateSharesToBuy(b.settings.maxInvestmentPerTrade,
                                                 b.settings.investmentType,
                                                 botCurrentPrice, BotVirtualCash)
         IN  IF sharesToBuy > 0
             THEN IF IsSome(d.newDirectionChange)
                  THEN SetLastProcessedIndex(
                           executeBotTrade(st, b.id, "BUY", sharesToBuy, botCurrentPrice),
                           b.id, Get(d.newDirectionChange).index)
                  ELSE executeBotTrade(st, b.id, "BUY", sharesToBuy, botCurrentPrice)
             ELSE st
    ELSE IF d.action = "SELL" /\ currentShares > 0
    THEN executeBotTrade(st, b.id, "SELL",
                         IF b.settings.investmentType = "shares"
                         THEN Min(b.settings.maxInvestmentPerTrade, currentShares)
                         ELSE currentShares,
                         botCurrentPrice)
    ELSE st

\* lines 926-940: the position update of decision d is stored on the bot
StorePositionUpdate(st, b, currentPosition, d) ==
    IF IsSome(d.updatePosition) /\ IsSome(currentPosition)
    THEN SetCurrentPosition(st, b.id,
                            MergePosition(Get(currentPosition), Get(d.updatePosition)))
    ELSE st

\* lines 876-940: the decision for the bot with its derived position, the
\* trade and the position update
\* lines 891-940 for the decision d: the trade, then the position update
ApplyDecision(st, b, derived, botCurrentPrice, d) ==
    StorePositionUpdate(
            ExecuteDecision(st, b, derived.currentShares, botCurrentPrice, d),
            b, derived.currentPosition, d)

DecideAndExecute(st, b, derived, trendData, botCurrentPrice, r1, r2) ==
    ApplyDecision(st, b, derived, botCurrentPrice,
                  makeTradingDecision(Bot(b.isActive, b.settings, derived.currentPosition),
                                 trendData, botCurrentPrice, b.lastProcessedIndex, r1, r2))

\* the body of the loop of checkAndExecuteBotTrades from line 842 on, for the
\* bot b of the snapshot, with the snapshot's botTradeHistory
EvaluateBot(st, b, snapHistory, trendData, botCurrentPrice, r1, r2) ==
    IF Len(trendData) < MinTrendData THEN st
    ELSE DecideAndExecute(st, b, DerivedPosition(b, snapHistory), trendData,
                          botCurrentPrice, r1, r2)

ActiveBots(bs) == SelectSeq(bs, LAMBDA b : b.isActive)

\* The invocation suspended at the await of its i-th active bot.  The series
\* and price it read at its start are kept only if a later bot of its loop
\* trades the selected stock: no other bot reads them.
Suspended(inv, i) ==
    LET activeBots == ActiveBots(inv.snapBots)
        readsStoreSeries ==
            \E j \in (i + 1)..Len(activeBots) : activeBots[j].stockSymbol = SelectedSymbol
    IN  [inv EXCEPT !.idx = i, !.pc = "price", !.price = 0,
                    !.snapData = IF readsStoreSeries THEN @ ELSE <<>>,
                    !.snapPrice = IF readsStoreSeries THEN @ ELSE 0]

\* checkAndExecuteBotTrades from the i-th active bot of its snapshot on, up to
\* its next await or its end: the store it leaves and, if it is suspended,
\* the invocation
RECURSIVE RunLoop(_, _, _, _, _)
RunLoop(st, inv, i, r1, r2) ==
    LET activeBots == ActiveBots(inv.snapBots)
    IN  IF i > Len(activeBots) THEN [st |-> st, inv |-> None]
        ELSE IF activeBots[i].stockSymbol # SelectedSymbol
        THEN [st |-> st, inv |-> Some(Suspended(inv, i))]
        ELSE RunLoop(EvaluateBot(st, activeBots[i], inv.snapHistory, inv.snapData,
                                 inv.snapPrice, r1, r2),
                     inv, i + 1, r1, r2)

-----------------------------------------------------------------------------
(* Spec: the store with its bots and the overlapping bot-trade checks *)

FallsOnce == [enabled |-> TRUE, count |-> 1]

\* a direction_change_buy bot without the overlay and a price_comparison bot
\* that sells after one fall
StoreSettingsChoices ==
    {Settings("direction_change_buy", None, FALSE, ProfitOff, FALSE, FallsOff),
     Settings("price_comparison", None, TRUE, ProfitOff, FALSE, FallsOnce)}

\* the series a request for intraday data returns
StoreSeries == {<<1>>, <<2, 1, 2>>, <<1, 2, 1>>, <<2, 2, 1, 2>>}

\* Math.random() is read by confirmed_recovery only, which no bot of
\* StoreSettingsChoices uses
StoreRandom == {0}

NewStats == [totalTrades |-> 0, totalProfit |-> Q(0), winRate |-> Q(0)]

DecideIdle ==
    /\ bot = Bot(FALSE, Settings("", None, FALSE, ProfitOff, FALSE, FallsOff), None)
    /\ data = <<>>
    /\ currentPrice = 1
    /\ lastProcessedIndex = None
    /\ decision = None

Init ==
    /\ bots = <<>>
    /\ botTradeHistory = <<>>
    /\ intradayData = <<>>
    /\ storePrice = 0
    /\ invocations = <<>>
    /\ nextId = 0
    /\ DecideIdle
    /\ AnalysisIdle
    /\ RestIdle

RemoveAt(s, k) == SubSeq(s, 1, k - 1) \o SubSeq(s, k + 1, Len(s))

\* the bound of the model on the store st
WithinBounds(st) ==
    /\ Len(st.botTradeHistory) <= MaxTrades
    /\ \A i \in 1..Len(st.bots) :
           IsSome(st.bots[i].currentPosition) =>
               Len(Get(Get(st.bots[i].currentPosition).priceHistory)) <= MaxHistory

\* the store and the invocations after invocation k ran up to result
Continue(k, result) ==
    /\ WithinBounds(result.st)
    /\ bots' = result.st.bots
    /\ botTradeHistory' = result.st.botTradeHistory
    /\ invocations' = IF IsSome(result.inv)
                      THEN [invocations EXCEPT ![k] = Get(result.inv)]
                      ELSE RemoveAt(invocations, k)

CreateBot ==
    /\ nextId < MaxBots
    /\ \E settings \in StoreSettingsChoices, symbol \in Symbols :
          bots' = Append(bots, [id |-> nextId + 1, stockSymbol |-> symbol,
                                isActive |-> FALSE, settings |-> settings,
                                lastProcessedIndex |-> None,
                                currentPosition |-> None, stats |-> NewStats])
    /\ nextId' = nextId + 1
    /\ UNCHANGED <<botTradeHistory, intradayData, storePrice, invocations>>
    /\ UNCHANGED decideVars
    /\ UNCHANGED analysisVars
    /\ UNCHANGED restVars

ToggleBot ==
    /\ \E k \in 1..Len(bots) :
          bots' = [bots EXCEPT ![k].isActive = ~@]
    /\ UNCHANGED <<botTradeHistory, intradayData, storePrice, invocations, nextId>>
    /\ UNCHANGED decideVars
    /\ UNCHANGED analysisVars
    /\ UNCHANGED restVars

DeleteBot ==
    /\ \E k \in 1..Len(bots) :
          /\ bots' = SelectSeq(bots, LAMBDA b : b.id # bots[k].id)
          /\ botTradeHistory' =
                 SelectSeq(botTradeHistory, LAMBDA t : t.botId # bots[k].id)
    /\ UNCHANGED <<intradayData, storePrice, invocations, nextId>>
    /\ UNCHANGED decideVars
    /\ UNCHANGED analysisVars
    /\ UNCHANGED restVars

\* a checkAndExecuteBotTrades call at its start: what get() returns (line 773)
Invocation(series) ==
    [snapBots |-> bots, snapHistory |-> botTradeHistory,
     snapData |-> series, snapPrice |-> Last(series),
     idx |-> 1, pc |-> "start", price |-> 0]

\* the store and the invocations after a new invocation ran up to result
Start(result) ==
    /\ WithinBounds(result.st)
    /\ bots' = result.st.bots
    /\ botTradeHistory' = result.st.botTradeHistory
    /\ IF IsSome(result.inv)
       THEN /\ Len(invocations) < MaxInvocations
            /\ invocations' = Append(invocations, Get(result.inv))
       ELSE invocations' = invocations

\* the end of a successful fetchStockData (lines 456-491): the series and the
\* price are stored, and checkAndExecuteBotTrades runs up to its first await
FetchStockData ==
    /\ \E series \in StoreSeries, r1 \in StoreRandom, r2 \in StoreRandom :
          /\ intradayData' = series
          /\ storePrice' = Last(series)
          /\ Start(RunLoop(StoreState(bots, botTradeHistory), Invocation(series),
                           1, r1, r2))
    /\ UNCHANGED nextId
    /\ UNCHANGED decideVars
    /\ UNCHANGED analysisVars
    /\ UNCHANGED restVars

\* await getCurrentStockPrice(bot.stockSymbol) returns (line 784)
ReceivePrice ==
    /\ \E k \in 1..Len(invocations), p \in Prices :
          /\ invocations[k].pc = "price"
          /\ invocations' = [invocations EXCEPT ![k].price = p, ![k].pc = "data"]
    /\ UNCHANGED <<bots, botTradeHistory, intradayData, storePrice, nextId>>
    /\ UNCHANGED decideVars
    /\ UNCHANGED analysisVars
    /\ UNCHANGED restVars

\* await getStockIntradayData(...) returns (lines 816-835): the bot is
\* evaluated and the loop runs on to its next await or its end
ReceiveData ==
    /\ \E k \in 1..Len(invocations), series \in StoreSeries,
          r1 \in StoreRandom, r2 \in StoreRandom :
          /\ invocations[k].pc = "data"
          /\ LET inv == invocations[k]
                 b == ActiveBots(inv.snapBots)[inv.idx]
             IN  Continue(k, RunLoop(EvaluateBot(StoreState(bots, botTradeHistory), b,
                                                 inv.snapHistory, series, inv.price,
                                                 r1, r2),
                                     inv, inv.idx + 1, r1, r2))
    /\ UNCHANGED <<intradayData, storePrice, nextId>>
    /\ UNCHANGED decideVars
    /\ UNCHANGED analysisVars
    /\ UNCHANGED restVars

\* either await throws: the catch (line 836 or 941) goes on to the next bot
RequestFails ==
    /\ \E k \in 1..Len(invocations), r1 \in StoreRandom, r2 \in StoreRandom :
          LET inv == invocations[k]
          IN  Continue(k, RunLoop(StoreState(bots, botTradeHistory), inv,
                                  inv.idx + 1, r1, r2))
    /\ UNCHANGED <<intradayData, storePrice, nextId>>
    /\ UNCHANGED decideVars
    /\ UNCHANGED analysisVars
    /\ UNCHANGED restVars

Next ==
    \/ CreateBot
    \/ ToggleBot
    \/ DeleteBot
    \/ FetchStockData
    \/ ReceivePrice
    \/ ReceiveData
    \/ RequestFails

Spec == Init /\ [][Next]_vars

-----------------------------------------------------------------------------
(* SpecFeed: a bot of another stock checked on successive windows of its feed *)

\* getStockIntradayData(symbol, interval, outputsize): the newest outputsize
\* samples of the stock
Window(f) == SliceLast(f, WindowSize)
\* the place in the feed of the first sample of the window
Offset(f) == Len(f) - Len(Window(f))

\* the market produces one more sample
NewSample ==
    /\ Len(feed) < MaxFeed
    /\ \E p \in Prices : feed' = Append(feed, p)
    /\ UNCHANGED boughtValley
    /\ UNCHANGED storeVars
    /\ UNCHANGED decideVars
    /\ UNCHANGED analysisVars
    /\ UNCHANGED <<realTimeVars, portfolioVars>>

BuyRecorded(st) ==
    /\ Len(st.botTradeHistory) > Len(botTradeHistory)
    /\ st.botTradeHistory[1].type = "BUY"

\* the store after the check left it as st
Checked(b, st) ==
    /\ WithinBounds(st)
    /\ bots' = st.bots
    /\ botTradeHistory' = st.botTradeHistory
    /\ boughtValley' =
           IF BuyRecorded(st) /\ IsSome(FindBot(st.bots, b.id)[1].lastProcessedIndex)
           THEN [boughtValley EXCEPT ![b.id] =
                    Some(Offset(feed)
                         + Get(FindBot(st.bots, b.id)[1].lastProcessedIndex))]
           ELSE boughtValley

\* one checkAndExecuteBotTrades call for an active bot of the other stock,
\* with no other handler running between its awaits: the price and the
\* window it fetches are the newest of the feed
CheckOnFeed ==
    /\ feed # <<>>
    /\ \E k \in 1..Len(bots) :
          /\ bots[k].isActive
          /\ bots[k].stockSymbol = OtherSymbol
          /\ Checked(bots[k],
                     EvaluateBot(StoreState(bots, botTradeHistory), bots[k],
                                 botTradeHistory, Window(feed), Last(feed), 0, 0))
    /\ UNCHANGED <<feed, intradayData, storePrice, invocations, nextId>>
    /\ UNCHANGED decideVars
    /\ UNCHANGED analysisVars
    /\ UNCHANGED <<realTimeVars, portfolioVars>>

NextFeed ==
    \/ CreateBot
    \/ ToggleBot
    \/ NewSample
    \/ CheckOnFeed

SpecFeed == Init /\ [][NextFeed]_vars

-----------------------------------------------------------------------------
(* Claims about the store *)

Reverse(s) == [i \in 1..Len(s) |-> s[Len(s) + 1 - i]]

\* the trades of bot botId, oldest first
TradesInOrder(botId) ==
    Reverse(SelectSeq(botTradeHistory, LAMBDA t : t.botId = botId))

Signed(t) == IF t.type = "BUY" THEN t.shares ELSE 0 - t.shares

RECURSIVE SharesAfter(_, _)
\* the shares held after the first n trades of the list
SharesAfter(trades, n) ==
    IF n = 0 THEN 0 ELSE SharesAfter(trades, n - 1) + Signed(trades[n])

NetShares(botId) ==
    LET trades == TradesInOrder(botId) IN SharesAfter(trades, Len(trades))

BotIds == 1..MaxBots

\* C4: a bot has at most one open position: under every interleaving of
\* checkAndExecuteBotTrades invocations a BUY is never recorded for a bot that
\* already holds shares and every recorded SELL brings its shares to zero, so
\* its trade history alternates BUY, SELL, BUY, ...
C4_OneOpenPosition ==
    \A id \in BotIds :
        LET trades == TradesInOrder(id)
        IN  \A n \in 1..Len(trades) :
                /\ trades[n].type = IF n % 2 = 1 THEN "BUY" ELSE "SELL"
                /\ trades[n].type = "BUY" => SharesAfter(trades, n - 1) = 0
                /\ trades[n].type = "SELL" => SharesAfter(trades, n) = 0

\* C7: the stored lastProcessedIndex of a bot only advances: a step that
\* changes it stores a value strictly greater than the one it replaces, and
\* only for a bot whose method is direction_change_buy.
C7_IndexOnlyAdvances ==
    [][\A i \in 1..Len(bots), j \in 1..Len(bots') :
          (bots[i].id = bots'[j].id
           /\ bots'[j].lastProcessedIndex # bots[i].lastProcessedIndex)
          => /\ bots[i].settings.tradingMethod = "direction_change_buy"
             /\ IsSome(bots'[j].lastProcessedIndex)
             /\ IsSome(bots[i].lastProcessedIndex) =>
                   Get(bots'[j].lastProcessedIndex) > Get(bots[i].lastProcessedIndex)]_vars

\* C10: in every state of the store the currentPosition of a bot is present
\* if and only if the bot holds shares (bought minus sold > 0).
C10_PositionIffShares ==
    \A i \in 1..Len(bots) :
        IsSome(bots[i].currentPosition) <=> NetShares(bots[i].id) > 0

\* the trades are round trips: BUY and SELL alternate and every SELL closes
\* the position
RoundTrips(trades) ==
    \A n \in 1..Len(trades) :
        /\ trades[n].type = IF n % 2 = 1 THEN "BUY" ELSE "SELL"
        /\ trades[n].type = "SELL" => SharesAfter(trades, n) = 0

\* the position that a check started in this state hands to the dispatcher
HandedPosition(b) == DerivedPosition(b, botTradeHistory).currentPosition

\* C24: the buyPrice of the position handed to makeTradingDecision is the
\* price of the BUY trade that opened the bot's current position, after any
\* sequence of earlier round trips of that bot at other prices.
C24_EntryPrice ==
    \A i \in 1..Len(bots) :
        LET trades == TradesInOrder(bots[i].id)
        IN  (RoundTrips(trades) /\ IsSome(HandedPosition(bots[i])))
            => Get(HandedPosition(bots[i])).buyPrice = Q(trades[Len(trades)].price)

\* this step records a BUY of bot id that opens a position after round trips
BuysIn(id) ==
    /\ Len(TradesInOrder(id)') = Len(TradesInOrder(id)) + 1
    /\ RoundTrips(TradesInOrder(id)')
    /\ TradesInOrder(id)'[Len(TradesInOrder(id)')].type = "BUY"

\* C25: the consecutive-falls history of an open position holds only the
\* position's buy price and the prices of the ticks since it was opened: on
\* the first tick after a BUY the history handed to the dispatcher is
\* [buyPrice], whatever rule closed the bot's previous position.
C25_FreshHistory ==
    [][\A id \in BotIds, j \in 1..Len(bots') :
          (BuysIn(id) /\ bots'[j].id = id)
          => LET pos == DerivedPosition(bots'[j], botTradeHistory').currentPosition
             IN  Get(pos).priceHistory = Some(<<Get(pos).buyPrice>>)]_vars

\* the newest direction change of the window is a valley that lies in the
\* feed after the valley that the latest BUY of bot id used
NewValley(id) ==
    /\ LastTurnIsValley(Window(feed))
    /\ IsSome(boughtValley[id])
       => \A i \in LastTurns(Window(feed)) :
              Offset(feed) + i > Get(boughtValley[id])

\* C26: a direction_change_buy bot is not starved: on a tick where it has no
\* position and the newest direction-change point of the evaluated series is
\* a valley at a sample that arrived after the valley its previous BUY used,
\* the dispatcher returns BUY, also when the series is a sliding window.
C26_NotStarved ==
    \A k \in 1..Len(bots) :
        (/\ bots[k].isActive
         /\ bots[k].stockSymbol = OtherSymbol
         /\ bots[k].settings.tradingMethod = "direction_change_buy"
         /\ NetShares(bots[k].id) = 0
         /\ NewValley(bots[k].id))
        => makeTradingDecision(Bot(TRUE, bots[k].settings, None), Window(feed),
                               Last(feed), bots[k].lastProcessedIndex, 0, 0).action
           = "BUY"

\* bot id is in the store and active
ActiveNow(id) == \E k \in 1..Len(bots) : bots[k].id = id /\ bots[k].isActive

TradesOfBot(history, id) == SelectSeq(history, LAMBDA t : t.botId = id)

\* C27: no trade is recorded for a bot that is inactive or deleted at the
\* moment of execution: a step taken while the bot is not active in the store
\* adds no trade of the bot to botTradeHistory and leaves the bot's stats as
\* they are, and a bot that was deleted does not come back.
C27_NoTradeForStoppedBot ==
    [][\A id \in BotIds :
          ~ActiveNow(id)
          => /\ Len(TradesOfBot(botTradeHistory', id))
                  <= Len(TradesOfBot(botTradeHistory, id))
             /\ \A k \in 1..Len(bots), j \in 1..Len(bots') :
                   (bots[k].id = id /\ bots'[j].id = id)
                   => bots'[j].stats = bots[k].stats
             /\ (id <= nextId /\ FindBot(bots, id) = <<>>)
                   => FindBot(bots', id) = <<>>]_vars

\* an invocation waits for the series of a bot that was toggled off or
\* deleted since the invocation started, and a series exists on which the
\* bot as the invocation knows it would trade
C27_Witness ==
    \E k \in 1..Len(invocations) :
        /\ invocations[k].pc = "data"
        /\ LET inv == invocations[k]
               b == ActiveBots(inv.snapBots)[inv.idx]
           IN  /\ ~ActiveNow(b.id)
               /\ \E series \in StoreSeries :
                     Len(EvaluateBot(StoreState(inv.snapBots, botTradeHistory), b,
                                     inv.snapHistory, series, inv.price, 0, 0)
                             .botTradeHistory)
                       > Len(botTradeHistory)

-----------------------------------------------------------------------------
(* Beat, potential-profit and potential-loss sequences (utils/beatsPerMinute) *)

\* parseFloat((n / d).toFixed(2)) in hundredths: n / d rounded to the nearest
\* whole number of hundredths, for d > 0
ToFixed2(n, d) == (2 * n + d) \div (2 * d)

\* data.slice(from, to) with the source's 0-based indices, to excluded
Slice(s, from, to) == SubSeq(s, from + 1, to)

\* the object pushed for the run from index startIndex to index endIndex
BeatSequence(series, startIndex, endIndex) ==
    LET startPrice == series[startIndex + 1]
        endPrice == series[endIndex + 1]
        dollarGain == endPrice - startPrice
    IN  [startIndex |-> startIndex, endIndex |-> endIndex,
         startPrice |-> startPrice, endPrice |-> endPrice,
         dollarGain |-> ToFixed2(dollarGain, 1),
         percentageChange |-> ToFixed2(dollarGain * 10000, startPrice),
         dataPoints |-> Slice(series, startIndex, endIndex + 1)]

\* mutant: the sequence starts at the first sample of the run's first interval
FlushBeat_FromRunStart(series, minRun, start, count, endIndex, sequences) ==
    IF count >= minRun /\ start >= 0
    THEN Append(sequences, BeatSequence(series, start + 1, endIndex))
    ELSE sequences

\* mutant: a run of any length is pushed
FlushBeat_AnyLength(series, minRun, start, count, endIndex, sequences) ==
    IF count >= 1 /\ start >= 0
    THEN Append(sequences, BeatSequence(series, start, endIndex))
    ELSE sequences

\* mutant: the run that reaches the last sample is never pushed
FlushBeat_NotAtEnd(series, minRun, start, count, endIndex, sequences) ==
    IF count >= minRun /\ start >= 0 /\ endIndex < Len(series) - 1
    THEN Append(sequences, BeatSequence(series, start, endIndex))
    ELSE sequences

\* the test made at a run break and after the loop, with the push it guards
FlushBeat(series, minRun, start, count, endIndex, sequences) ==
    IF count >= minRun /\ start >= 0
    THEN Append(sequences, BeatSequence(series, start, endIndex))
    ELSE sequences

RECURSIVE BeatLoop(_, _, _, _, _, _)
\* the loop of detectBeatSequences from index i on, then the final test
BeatLoop(series, minRun, i, start, count, sequences) ==
    IF i >= Len(series)
    THEN FlushBeat(series, minRun, start, count, Len(series) - 1, sequences)
    ELSE IF series[i + 1] - series[i] > 0
    THEN BeatLoop(series, minRun, i + 1,
                  IF count = 0 THEN i - 1 ELSE start, count + 1, sequences)
    ELSE BeatLoop(series, minRun, i + 1, -1, 0,
                  FlushBeat(series, minRun, start, count, i - 1, sequences))

detectBeatSequences(series, minRun) ==
    IF Len(series) < minRun + 1 THEN <<>>
    ELSE BeatLoop(series, minRun, 1, -1, 0, <<>>)

\* mutant: only the first sample is excluded
PotentialProfitOf_KeepLast(sequence) ==
    IF Len(sequence.dataPoints) < MinProfitDataPoints THEN <<>>
    ELSE
    LET trimmedDataPoints == Slice(sequence.dataPoints, 1, Len(sequence.dataPoints))
        dollarGain == Last(trimmedDataPoints) - trimmedDataPoints[1]
    IN  <<[originalSequence |-> sequence,
           startIndex |-> sequence.startIndex + 1,
           endIndex |-> sequence.endIndex - 1,
           startPrice |-> trimmedDataPoints[1], endPrice |-> Last(trimmedDataPoints),
           dollarGain |-> ToFixed2(dollarGain, 1),
           percentageChange |-> ToFixed2(dollarGain * 10000, trimmedDataPoints[1]),
           dataPoints |-> trimmedDataPoints,
           excludedBeats |-> ExcludedBeats]>>

\* the callback of forEach for one beat sequence: what it pushes
PotentialProfitOf(sequence) ==
    IF Len(sequence.dataPoints) < MinProfitDataPoints THEN <<>>
    ELSE
    LET trimmedDataPoints == Slice(sequence.dataPoints, 1, Len(sequence.dataPoints) - 1)
    IN  IF Len(trimmedDataPoints) = 0 THEN <<>>
        ELSE
        LET startPrice == trimmedDataPoints[1]
            endPrice == Last(trimmedDataPoints)
            dollarGain == endPrice - startPrice
        IN  <<[originalSequence |-> sequence,
               startIndex |-> sequence.startIndex + 1,
               endIndex |-> sequence.endIndex - 1,
               startPrice |-> startPrice, endPrice |-> endPrice,
               dollarGain |-> ToFixed2(dollarGain, 1),
               percentageChange |-> ToFixed2(dollarGain * 10000, startPrice),
               dataPoints |-> trimmedDataPoints,
               excludedBeats |-> ExcludedBeats]>>

RECURSIVE calculatePotentialProfitSequences(_)
calculatePotentialProfitSequences(beatSequences) ==
    IF beatSequences = <<>> THEN <<>>
    ELSE PotentialProfitOf(Head(beatSequences))
         \o calculatePotentialProfitSequences(Tail(beatSequences))

\* mutant: the fall before the reversal is not required
PotentialLossAt_NoFallBefore(series, i) ==
    LET beforeBeforePrice == series[i - 1]
        beforePrice == series[i]
        curPrice == series[i + 1]
        nextPrice == series[i + 2]
        dollarLoss == curPrice - nextPrice
    IN  IF curPrice > beforePrice /\ nextPrice < curPrice
        THEN <<[beforeReversalIndex |-> i - 1, reversalIndex |-> i,
                afterReversalIndex |-> i + 1,
                beforeReversalPrice |-> beforePrice, reversalPrice |-> curPrice,
                afterReversalPrice |-> nextPrice,
                dollarLoss |-> ToFixed2(dollarLoss, 1),
                percentageChange |-> ToFixed2(dollarLoss * 10000, curPrice),
                dataPoints |-> <<beforeBeforePrice, beforePrice, curPrice, nextPrice>>,
                upIndex |-> i, downIndex |-> i + 1,
                upPrice |-> curPrice, downPrice |-> nextPrice]>>
        ELSE <<>>

\* the body of the loop of detectPotentialLossSequences for index i
PotentialLossAt(series, i) ==
    LET beforeBeforePrice == series[i - 1]
        beforePrice == series[i]
        curPrice == series[i + 1]
        nextPrice == series[i + 2]
        isDownBeforeReversal == beforePrice < beforeBeforePrice
        isUpwardReversal == curPrice > beforePrice
        isDownAfterReversal == nextPrice < curPrice
        dollarLoss == curPrice - nextPrice
    IN  IF isDownBeforeReversal /\ isUpwardReversal /\ isDownAfterReversal
        THEN <<[beforeReversalIndex |-> i - 1, reversalIndex |-> i,
                afterReversalIndex |-> i + 1,
                beforeReversalPrice |-> beforePrice, reversalPrice |-> curPrice,
                afterReversalPrice |-> nextPrice,
                dollarLoss |-> ToFixed2(dollarLoss, 1),
                percentageChange |-> ToFixed2(dollarLoss * 10000, curPrice),
                dataPoints |-> <<beforeBeforePrice, beforePrice, curPrice, nextPrice>>,
                upIndex |-> i, downIndex |-> i + 1,
                upPrice |-> curPrice, downPrice |-> nextPrice]>>
        ELSE <<>>

RECURSIVE PotentialLossesFrom(_, _)
PotentialLossesFrom(series, i) ==
    IF i < Len(series) - 1
    THEN PotentialLossAt(series, i) \o PotentialLossesFrom(series, i + 1)
    ELSE <<>>

detectPotentialLossSequences(series) ==
    IF Len(series) < MinLossData THEN <<>> ELSE PotentialLossesFrom(series, 2)

-----------------------------------------------------------------------------
(* SpecAnalysis: the analyses of a series, applied to every series of the
   bounded sets and to the two series of the documented scenarios *)

ScenarioA == <<1000, 1100, 1200, 1300, 900>>
ScenarioB == <<1000, 900, 1100, 800>>

BeatPrices == 1..MaxBeatPrice

AnalysisSeries ==
    UNION {[1..n -> BeatPrices] : n \in 0..MaxBeatLen} \cup {ScenarioA, ScenarioB}

AnalysisRuns == 1..MaxRun \cup {DefaultMinConsecutiveIntervals}

InitAnalysis ==
    /\ analysisData \in AnalysisSeries
    /\ minConsecutiveIntervals \in AnalysisRuns
    /\ analysis = None
    /\ DecideIdle
    /\ StoreIdle
    /\ RestIdle

\* the analyses computed from one series
Analysis(series, minRun, beatSequences) ==
    [beatSequences |-> beatSequences,
     potentialProfitSequences |-> calculatePotentialProfitSequences(beatSequences),
     potentialLossSequences |-> detectPotentialLossSequences(series),
     directionChanges |-> getDirectionChangePoints(series),
     lastDirectionChange |-> getLastDirectionChangePoint(series)]

Analyse ==
    /\ analysis' = Some(Analysis(analysisData, minConsecutiveIntervals,
                                 detectBeatSequences(analysisData,
                                                     minConsecutiveIntervals)))
    /\ UNCHANGED <<analysisData, minConsecutiveIntervals>>
    /\ UNCHANGED decideVars
    /\ UNCHANGED storeVars
    /\ UNCHANGED restVars

NextAnalysis == Analyse

SpecAnalysis == InitAnalysis /\ [][NextAnalysis]_vars

-----------------------------------------------------------------------------
(* Properties of the analyses (checked under SpecAnalysis) *)

Analysed == IsSome(analysis)
Beats == Get(analysis).beatSequences
Profits == Get(analysis).potentialProfitSequences
Losses == Get(analysis).potentialLossSequences
Turns == Get(analysis).directionChanges

\* data[i].price for a 0-based index i of the analysed series
PriceAt(i) == analysisData[i + 1]
\* the interval that ends at index i rises
Rises(i) == PriceAt(i) - PriceAt(i - 1) > 0
LastIndex == Len(analysisData) - 1

\* C11: on the prices 10, 11, 12, 13, 9 with a minimum of 4 intervals
\* detectBeatSequences returns exactly one sequence, from index 0 (price 10)
\* to index 3 (price 13), with gain 3.00 and percentage 30.00; the final
\* sample 9 is not part of it.
C11_ScenarioA ==
    (Analysed /\ analysisData = ScenarioA /\ minConsecutiveIntervals = 4)
    => /\ Len(Beats) = 1
       /\ Beats[1].startIndex = 0
       /\ Beats[1].endIndex = 3
       /\ Beats[1].startPrice = 1000
       /\ Beats[1].endPrice = 1300
       /\ Beats[1].dollarGain = 300
       /\ Beats[1].percentageChange = 3000
       /\ Beats[1].dataPoints = <<1000, 1100, 1200, 1300>>

\* C11 as the code has it: the series has three rising intervals, so a
\* minimum of 4 intervals gives the empty result, and a minimum of 3 gives
\* exactly the one sequence from index 0 (price 10) to index 3 (price 13), gain
\* 3.00, percentage 30.00, without the final sample 9.
C11_ScenarioAThreeIntervals ==
    (Analysed /\ analysisData = ScenarioA)
    => /\ minConsecutiveIntervals = 4 => Beats = <<>>
       /\ minConsecutiveIntervals = 3 =>
             /\ Len(Beats) = 1
             /\ Beats[1].startIndex = 0
             /\ Beats[1].endIndex = 3
             /\ Beats[1].startPrice = 1000
             /\ Beats[1].endPrice = 1300
             /\ Beats[1].dollarGain = 300
             /\ Beats[1].percentageChange = 3000
             /\ Beats[1].dataPoints = <<1000, 1100, 1200, 1300>>

C11_Witness ==
    /\ Analysed /\ analysisData = ScenarioA /\ minConsecutiveIntervals = 3
    /\ Len(Beats) = 1

\* C12: in every emitted beat sequence every interval from startIndex to
\* endIndex rises strictly, endIndex - startIndex is at least the minimum run,
\* and the interval right after endIndex, if there is one, does not rise.
C12_BeatSequenceInvariant ==
    Analysed =>
        \A k \in 1..Len(Beats) :
            /\ \A i \in (Beats[k].startIndex + 1)..Beats[k].endIndex : Rises(i)
            /\ Beats[k].endIndex - Beats[k].startIndex >= minConsecutiveIntervals
            /\ Beats[k].endIndex < LastIndex => ~Rises(Beats[k].endIndex + 1)

C12_Witness ==
    /\ Analysed
    /\ \E k \in 1..Len(Beats) :
          /\ Beats[k].endIndex < LastIndex
          /\ Beats[k].endIndex - Beats[k].startIndex = 2
          /\ PriceAt(Beats[k].endIndex + 1) = PriceAt(Beats[k].endIndex)

\* the maximal runs of rising intervals, as <<index before the first
\* interval, index of the last sample>>
MaximalRuns ==
    {r \in (0..LastIndex) \X (0..LastIndex) :
        /\ r[1] < r[2]
        /\ \A i \in (r[1] + 1)..r[2] : Rises(i)
        /\ r[1] > 0 => ~Rises(r[1])
        /\ r[2] < LastIndex => ~Rises(r[2] + 1)}

\* C13: detectBeatSequences emits exactly one sequence for every maximal run
\* of at least the minimum number of rising intervals, in order, and nothing
\* else; a run that ends at the last sample is emitted, and a series shorter
\* than the minimum plus one sample gives the empty result.
C13_OnePerMaximalRun ==
    Analysed =>
        /\ {<<Beats[k].startIndex, Beats[k].endIndex>> : k \in 1..Len(Beats)}
             = {r \in MaximalRuns : r[2] - r[1] >= minConsecutiveIntervals}
        /\ \A k \in 1..(Len(Beats) - 1) : Beats[k].endIndex < Beats[k + 1].startIndex
        /\ \A k \in 1..Len(Beats) :
              Beats[k].dataPoints =
                  [j \in 1..(Beats[k].endIndex - Beats[k].startIndex + 1) |->
                      PriceAt(Beats[k].startIndex + j - 1)]
        /\ Len(analysisData) < minConsecutiveIntervals + 1 => Beats = <<>>

C13_Witness ==
    /\ Analysed
    /\ Len(Beats) = 2
    /\ Beats[2].endIndex = LastIndex
    /\ PriceAt(Beats[1].endIndex + 1) = PriceAt(Beats[1].endIndex)

\* C14: getDirectionChangePoints returns, in ascending index order, exactly
\* the interior indices that are a strict local minimum (valley) or a strict
\* local maximum (peak); ties, the first and the last sample are never
\* emitted, fewer than 3 samples give the empty result, and
\* getLastDirectionChangePoint returns its last element or null.
C14_DirectionChangePoints ==
    Analysed =>
        /\ \A k \in 1..(Len(Turns) - 1) : Turns[k].index < Turns[k + 1].index
        /\ {<<Turns[k].index, Turns[k].type, Turns[k].price>> : k \in 1..Len(Turns)}
             = {<<i, "valley", PriceAt(i)>> :
                   i \in {i \in 1..(LastIndex - 1) :
                            PriceAt(i - 1) > PriceAt(i) /\ PriceAt(i) < PriceAt(i + 1)}}
               \cup
               {<<i, "peak", PriceAt(i)>> :
                   i \in {i \in 1..(LastIndex - 1) :
                            PriceAt(i - 1) < PriceAt(i) /\ PriceAt(i) > PriceAt(i + 1)}}
        /\ Len(analysisData) < 3 => Turns = <<>>
        /\ Get(analysis).lastDirectionChange =
               IF Len(Turns) = 0 THEN None ELSE Some(Turns[Len(Turns)])

C14_Witness ==
    /\ Analysed
    /\ Len(Turns) = 2
    /\ Turns[1].type = "peak" /\ Turns[2].type = "valley"
    /\ \E i \in 1..(LastIndex - 1) : PriceAt(i) = PriceAt(i + 1)

\* the indices at which the down-up-down pattern is centred
LossIndices ==
    {i \in 2..(LastIndex - 1) :
        /\ PriceAt(i - 1) < PriceAt(i - 2)
        /\ PriceAt(i) > PriceAt(i - 1)
        /\ PriceAt(i + 1) < PriceAt(i)}

\* C15: detectPotentialLossSequences emits, in ascending order, exactly one
\* sequence for every index i with p[i-1] < p[i-2], p[i] > p[i-1] and
\* p[i+1] < p[i], with the indices i-1, i, i+1 and the loss p[i] - p[i+1];
\* overlapping matches are all emitted, fewer than 4 samples give the empty
\* result, and the prices 10, 9, 11, 8 give one sequence with loss 3.00.
C15_PotentialLossSequences ==
    Analysed =>
        /\ \A k \in 1..(Len(Losses) - 1) :
              Losses[k].reversalIndex < Losses[k + 1].reversalIndex
        /\ {Losses[k].reversalIndex : k \in 1..Len(Losses)} = LossIndices
        /\ \A k \in 1..Len(Losses) :
              LET i == Losses[k].reversalIndex
              IN  /\ Losses[k].beforeReversalIndex = i - 1
                  /\ Losses[k].afterReversalIndex = i + 1
                  /\ Losses[k].beforeReversalPrice = PriceAt(i - 1)
                  /\ Losses[k].reversalPrice = PriceAt(i)
                  /\ Losses[k].afterReversalPrice = PriceAt(i + 1)
                  /\ Losses[k].dollarLoss = PriceAt(i) - PriceAt(i + 1)
        /\ Len(analysisData) < 4 => Losses = <<>>
        /\ analysisData = ScenarioB =>
              /\ Len(Losses) = 1
              /\ Losses[1].beforeReversalPrice = 900
              /\ Losses[1].reversalPrice = 1100
              /\ Losses[1].afterReversalPrice = 800
              /\ Losses[1].dollarLoss = 300

\* two matches whose 4-sample windows overlap
C15_Witness ==
    /\ Analysed
    /\ Len(Losses) = 2
    /\ Losses[2].reversalIndex = Losses[1].reversalIndex + 2

\* C16: calculatePotentialProfitSequences emits, in input order, one sequence
\* for each beat sequence of at least 3 samples and none for a shorter one;
\* its dataPoints are the original's without the first and the last sample,
\* its indices the original's moved inwards by one, excludedBeats is 2 and
\* the gain is the last trimmed price minus the first.
C16_PotentialProfitSequences ==
    Analysed =>
        /\ [k \in 1..Len(Profits) |-> Profits[k].originalSequence]
             = SelectSeq(Beats, LAMBDA b : Len(b.dataPoints) >= 3)
        /\ \A k \in 1..Len(Profits) :
              LET o == Profits[k].originalSequence
                  n == Len(o.dataPoints)
              IN  /\ Len(Profits[k].dataPoints) = n - 2
                  /\ Profits[k].dataPoints = [j \in 1..(n - 2) |-> o.dataPoints[j + 1]]
                  /\ Profits[k].startIndex = o.startIndex + 1
                  /\ Profits[k].endIndex = o.endIndex - 1
                  /\ Profits[k].excludedBeats = 2
                  /\ Profits[k].dollarGain = o.dataPoints[n - 1] - o.dataPoints[2]

\* a 2-sample beat sequence is dropped and a longer one trimmed
C16_Witness ==
    /\ Analysed
    /\ Len(Beats) = 2 /\ Len(Profits) = 1
    /\ Len(Beats[1].dataPoints) = 2
    /\ Len(Profits[1].dataPoints) = 2

\* C30: in the result of getDirectionChangePoints consecutive points
\* alternate between peak and valley, for every series, also one with equal
\* adjacent prices: two peaks never occur without a valley between them, nor
\* two valleys without a peak.
C30_PeaksAndValleysAlternate ==
    Analysed =>
        \A k \in 1..(Len(Turns) - 1) : Turns[k].type # Turns[k + 1].type

-----------------------------------------------------------------------------
(* SpecRealTime: the selected stock, its one-second timer and the requests
   to the market data service that are in flight.  A price carries the symbol
   it was requested for; the store keeps the number only. *)

\* a request that waits for the service: the callback of the timer
\* (kind "tick") or a fetchStockData call (kind "fetch"), with the
\* selectedStock it read before its await
Request(kind, symbol) == [kind |-> kind, symbol |-> symbol]

DataPoint(price, symbol) == [price |-> price, symbol |-> symbol]

\* setSelectedStock(stock): stopRealTimeUpdates, the data is cleared and
\* fetchStockData runs up to its first await
SetSelectedStock ==
    /\ Len(pending) < MaxPending
    /\ \E stock \in Symbols :
          /\ stock # selectedStock
          /\ selectedStock' = stock
          /\ pending' = Append(pending, Request("fetch", stock))
    /\ realTimeInterval' = None
    /\ oneSecondData' = <<>>
    /\ shownPrice' = NoPrice
    /\ UNCHANGED <<decideVars, storeVars, analysisVars, feedVars, portfolioVars>>

\* startRealTimeUpdates: a timer whose callback captures selectedStock
\* replaces the timer that runs, if any
StartRealTimeUpdates ==
    /\ realTimeInterval' = Some(selectedStock)
    /\ UNCHANGED <<selectedStock, oneSecondData, shownPrice, pending>>
    /\ UNCHANGED <<decideVars, storeVars, analysisVars, feedVars, portfolioVars>>

StopRealTimeUpdates ==
    /\ IsSome(realTimeInterval)
    /\ realTimeInterval' = None
    /\ UNCHANGED <<selectedStock, oneSecondData, shownPrice, pending>>
    /\ UNCHANGED <<decideVars, storeVars, analysisVars, feedVars, portfolioVars>>

\* the timer fires: its callback asks for the price of the stock it captured
Tick ==
    /\ IsSome(realTimeInterval)
    /\ Len(pending) < MaxPending
    /\ pending' = Append(pending, Request("tick", Get(realTimeInterval)))
    /\ UNCHANGED <<selectedStock, realTimeInterval, oneSecondData, shownPrice>>
    /\ UNCHANGED <<decideVars, storeVars, analysisVars, feedVars, portfolioVars>>

\* the screen's 10-second timer calls fetchStockData
RefreshStockData ==
    /\ Len(pending) < MaxPending
    /\ pending' = Append(pending, Request("fetch", selectedStock))
    /\ UNCHANGED <<selectedStock, realTimeInterval, oneSecondData, shownPrice>>
    /\ UNCHANGED <<decideVars, storeVars, analysisVars, feedVars, portfolioVars>>

\* the price of a timer callback arrives (lines 184-236): the point is
\* appended to oneSecondData (the newest timestamp, so the sort keeps it last)
\* and the price becomes currentPrice
TickPriceArrives ==
    /\ Len(oneSecondData) < MaxSeconds
    /\ \E k \in 1..Len(pending), p \in Prices :
          /\ pending[k].kind = "tick"
          /\ pending' = RemoveAt(pending, k)
          /\ oneSecondData' = Append(oneSecondData, DataPoint(p, pending[k].symbol))
          /\ shownPrice' = DataPoint(p, Some(pending[k].symbol))
    /\ UNCHANGED <<selectedStock, realTimeInterval>>
    /\ UNCHANGED <<decideVars, storeVars, analysisVars, feedVars, portfolioVars>>

\* the request of a timer callback fails: the catch block only logs
TickPriceFails ==
    /\ \E k \in 1..Len(pending) :
          /\ pending[k].kind = "tick"
          /\ pending' = RemoveAt(pending, k)
    /\ UNCHANGED <<selectedStock, realTimeInterval, oneSecondData, shownPrice>>
    /\ UNCHANGED <<decideVars, storeVars, analysisVars, feedVars, portfolioVars>>

\* the requests of a fetchStockData call have arrived (lines 456-470):
\* oneSecondData restarts empty and currentPrice is the newest price received
FetchArrives ==
    /\ \E k \in 1..Len(pending), p \in Prices :
          /\ pending[k].kind = "fetch"
          /\ pending' = RemoveAt(pending, k)
          /\ shownPrice' = DataPoint(p, Some(pending[k].symbol))
    /\ oneSecondData' = <<>>
    /\ UNCHANGED <<selectedStock, realTimeInterval>>
    /\ UNCHANGED <<decideVars, storeVars, analysisVars, feedVars, portfolioVars>>

\* a request of a fetchStockData call fails (lines 492-503)
FetchFails ==
    /\ \E k \in 1..Len(pending) :
          /\ pending[k].kind = "fetch"
          /\ pending' = RemoveAt(pending, k)
    /\ oneSecondData' = <<>>
    /\ shownPrice' = NoPrice
    /\ UNCHANGED <<selectedStock, realTimeInterval>>
    /\ UNCHANGED <<decideVars, storeVars, analysisVars, feedVars, portfolioVars>>

InitRealTime ==
    /\ RealTimeIdle
    /\ DecideIdle
    /\ StoreIdle
    /\ AnalysisIdle
    /\ FeedIdle
    /\ PortfolioIdle

NextRealTime ==
    \/ SetSelectedStock
    \/ StartRealTimeUpdates
    \/ StopRealTimeUpdates
    \/ Tick
    \/ RefreshStockData
    \/ TickPriceArrives
    \/ TickPriceFails
    \/ FetchArrives
    \/ FetchFails

SpecRealTime == InitRealTime /\ [][NextRealTime]_vars

\* C28: after setSelectedStock has switched to another stock, currentPrice
\* and oneSecondData hold no price that a real-time callback fetched for the
\* stock selected before: every point of oneSecondData is a price of the
\* selected stock, and so is currentPrice when a real-time callback wrote it
\* last.
C28_NoStalePrice ==
    /\ \A i \in 1..Len(oneSecondData) : oneSecondData[i].symbol = selectedStock
    /\ (oneSecondData # <<>> /\ IsSome(shownPrice.symbol))
       => Get(shownPrice.symbol) = selectedStock

-----------------------------------------------------------------------------
(* SpecPortfolio: the manual portfolio under executeTrade (money in cents).
   Rounding to the nearest double is monotone, so the two tests of
   executeTrade and the signs of its differences are those of exact
   arithmetic. *)

\* n / d rounded to the nearest integer, halves away from zero, for d > 0
RoundDiv(n, d) ==
    IF n >= 0 THEN (2 * n + d) \div (2 * d) ELSE -((d - 2 * n) \div (2 * d))

\* n / d * 100 in hundredths, rounded to the nearest, for n >= 0 and d > 0
PercentOf(n, d) ==
    LET r1 == (n * 100) % d
        r2 == (r1 * 100) % d
    IN  ((n * 100) \div d) * 100 + (r1 * 100) \div d
        + (IF 2 * r2 >= d THEN 1 ELSE 0)

\* calculatePortfolioValue; profitLossPercentage in hundredths of a percent
calculatePortfolioValue(shares, price, cash, averageBuyPrice) ==
    LET sharesValue == shares * price
        totalInvested == shares * averageBuyPrice
        profitLoss == sharesValue - totalInvested
        ratio == IF totalInvested > 0 THEN Frac(profitLoss, totalInvested) ELSE Q(0)
    IN  [cash |-> cash, shares |-> shares, averageBuyPrice |-> averageBuyPrice,
         totalInvested |-> totalInvested,
         totalValue |-> sharesValue + cash,
         profitLoss |-> profitLoss,
         profitLossPercentage |-> IF ratio[1] >= 0
                                  THEN PercentOf(ratio[1], ratio[2])
                                  ELSE -PercentOf(-ratio[1], ratio[2])]

\* mutant: a BUY is executed whatever it costs
BuyRejected_Never(pf, total) == FALSE

\* line 518
BuyRejected(pf, total) == pf.cash < total

\* line 538
SellRejected(pf, shares) == pf.shares < shares

\* lines 523-533
AfterBuy(pf, shares, total) ==
    LET newTotalShares == pf.shares + shares
        newAverageBuyPrice ==
            IF newTotalShares > 0
            THEN RoundDiv(pf.shares * pf.averageBuyPrice + total, newTotalShares)
            ELSE 0
    IN  [pf EXCEPT !.cash = @ - total, !.shares = newTotalShares,
                   !.averageBuyPrice = newAverageBuyPrice]

\* lines 546-555
AfterSell(pf, shares, total) ==
    [pf EXCEPT !.cash = @ + total, !.shares = @ - shares,
               !.averageBuyPrice = IF pf.shares - shares = 0 THEN 0 ELSE @]

\* lines 557-579: the portfolio is recomputed and the trade recorded
RecordTrade(newPortfolio, history, type, shares, price, profit) ==
    [portfolio |-> calculatePortfolioValue(newPortfolio.shares, price,
                                           newPortfolio.cash,
                                           newPortfolio.averageBuyPrice),
     tradeHistory |-> <<[type |-> type, price |-> price, shares |-> shares,
                         total |-> shares * price, profit |-> profit]>>
                      \o history]

\* executeTrade(type, shares, price) on the portfolio pf and the tradeHistory
executeTrade(pf, history, type, shares, price) ==
    LET total == shares * price
    IN  IF type = "BUY"
        THEN IF BuyRejected(pf, total)
             THEN [portfolio |-> pf, tradeHistory |-> history]
             ELSE RecordTrade(AfterBuy(pf, shares, total), history,
                              type, shares, price, 0)
        ELSE IF SellRejected(pf, shares)
             THEN [portfolio |-> pf, tradeHistory |-> history]
             ELSE RecordTrade(AfterSell(pf, shares, total), history,
                              type, shares, price,
                              (price - pf.averageBuyPrice) * shares)

TradeTypes == {"BUY", "SELL"}
TradeShares == {1, 2}
\* 4000.00 and 6000.00: two purchases can exceed the starting cash
TradePrices == {400000, 600000}

ExecuteTrade ==
    /\ Len(tradeHistory) < MaxPortfolioTrades
    /\ \E type \in TradeTypes, shares \in TradeShares, price \in TradePrices :
          LET result == executeTrade(portfolio, tradeHistory, type, shares, price)
          IN  /\ portfolio' = result.portfolio
              /\ tradeHistory' = result.tradeHistory
              /\ lastCall' = Some([type |-> type, shares |-> shares, price |-> price,
                                   portfolio |-> portfolio,
                                   tradeHistory |-> tradeHistory])
    /\ UNCHANGED <<decideVars, storeVars, analysisVars, feedVars, realTimeVars>>

InitPortfolio ==
    /\ PortfolioIdle
    /\ DecideIdle
    /\ StoreIdle
    /\ AnalysisIdle
    /\ FeedIdle
    /\ RealTimeIdle

NextPortfolio == ExecuteTrade

SpecPortfolio == InitPortfolio /\ [][NextPortfolio]_vars

\* the latest call asked for more than the portfolio had
Overdrawn ==
    /\ IsSome(lastCall)
    /\ \/ /\ Get(lastCall).type = "BUY"
          /\ Get(lastCall).shares * Get(lastCall).price > Get(lastCall).portfolio.cash
       \/ /\ Get(lastCall).type = "SELL"
          /\ Get(lastCall).shares > Get(lastCall).portfolio.shares

\* C29: executeTrade rejects a BUY whose cost exceeds the cash and a SELL of
\* more shares than held, leaving portfolio and tradeHistory as they were;
\* so cash and shares are never negative, and averageBuyPrice is 0 whenever
\* shares is 0.
C29_TradesWithinMeans ==
    /\ Overdrawn => /\ portfolio = Get(lastCall).portfolio
                    /\ tradeHistory = Get(lastCall).tradeHistory
    /\ portfolio.cash >= 0
    /\ portfolio.shares >= 0
    /\ portfolio.shares = 0 => portfolio.averageBuyPrice = 0

\* a BUY that costs more than the cash left by earlier trades, while shares
\* are held at a non-zero average price
C29_Witness ==
    /\ Overdrawn
    /\ Get(lastCall).type = "BUY"
    /\ tradeHistory # <<>>
    /\ portfolio.shares > 0

====
